---- MODULE Spec2Model ----
(***************************************************************************)
(* Quote aggregation and opportunity recognition of the zkSync Era         *)
(* arbitrage bot: the math library (utils/math), the venue adapters and    *)
(* the aggregator (prices/fetcher, prices/adapters/syncswap, velocore),    *)
(* and the opportunity builder (opportunities/builder).                     *)
(*                                                                         *)
(* bigint values are unbounded integers.  TLA+ \div rounds toward minus    *)
(* infinity while bigint division truncates toward zero, hence TruncDiv.   *)
(* The float field DexPrice.price is display-only and is left out.         *)
(***************************************************************************)
EXTENDS Integers, Sequences, FiniteSets, Bags, TLC

VARIABLES
    m_pc, m_fn, m_args, m_ret,
    b_pc, b_cfg, b_in, b_loc, b_opp,
    errorCounters, disabledPairs, calls, s_last, streak, tripped,
    f_pc, f_cfg, f_in, prices, f_invoked, f_last, bestQuote,
    cache, clock, u_call, u_stored,
    p_pc, p_in, p_paths, p_attempts, p_i, p_clock, p_startedAt, p_quote,
    g_pc, isRunning, scanCount, g_remaining, g_timer, g_running, g_settled, g_event,
    g_swept,
    price_gaps, d_clock, d_last,
    sc_pc, sc_option, sc_i, opportunities, sc_built, sc_last,
    r_call,
    o_pc, o_cfg, currentGasSpent, o_last,
    x_pc, paused, arbitrageExecutor, syncSwapVault, executorRole, reentrancyStatus, balances, x_tx, x_result

mathVars == <<m_pc, m_fn, m_args, m_ret>>
buildVars == <<b_pc, b_cfg, b_in, b_loc, b_opp>>
syncVars == <<errorCounters, disabledPairs, calls, s_last, streak, tripped>>
fetchVars == <<f_pc, f_cfg, f_in, prices, f_invoked, f_last, bestQuote>>
usdVars == <<cache, clock, u_call, u_stored>>
pancakeVars == <<p_pc, p_in, p_paths, p_attempts, p_i, p_clock, p_startedAt, p_quote>>
monVars == <<g_pc, isRunning, scanCount, g_remaining, g_timer, g_running, g_settled, g_event,
            g_swept>>
gapVars == <<price_gaps, d_clock, d_last>>
scanVars == <<sc_pc, sc_option, sc_i, opportunities, sc_built, sc_last>>
resolverVars == <<r_call>>
orchVars == <<o_pc, o_cfg, currentGasSpent, o_last>>
routerVars == <<x_pc, paused, arbitrageExecutor, syncSwapVault, executorRole, reentrancyStatus, balances, x_tx, x_result>>
vars == <<m_pc, m_fn, m_args, m_ret, b_pc, b_cfg, b_in, b_loc, b_opp,
          errorCounters, disabledPairs, calls, s_last, streak, tripped,
          f_pc, f_cfg, f_in, prices, f_invoked, f_last, bestQuote,
          cache, clock, u_call, u_stored,
          p_pc, p_in, p_paths, p_attempts, p_i, p_clock, p_startedAt, p_quote,
          g_pc, isRunning, scanCount, g_remaining, g_timer, g_running, g_settled, g_event,
          g_swept,
          price_gaps, d_clock, d_last,
          sc_pc, sc_option, sc_i, opportunities, sc_built, sc_last,
          r_call,
          o_pc, o_cfg, currentGasSpent, o_last,
          x_pc, paused, arbitrageExecutor, syncSwapVault, executorRole, reentrancyStatus, balances, x_tx, x_result>>

(* ----------------------------------------------------------------------- *)
(* Bounds of the model                                                     *)
(* ----------------------------------------------------------------------- *)
MaxSmall == 3
MaxScale == 2
MaxInFlight == 2
MaxOut == 1
MaxReserve == 1
MaxTime == 5
MaxDuration == 8
MaxRecords == 2
MaxGapTime == 3
MaxAdvance == 2
MaxDigits == 2
MaxDecimals == 2

(* JavaScript values that are absent *)
Undefined == "undefined"
Null == "null"

(* ----------------------------------------------------------------------- *)
(* utils/math                                                              *)
(* ----------------------------------------------------------------------- *)
BPS_DENOMINATOR == 10000

Abs(x) == IF x < 0 THEN 0 - x ELSE x

(* bigint a / b, b # 0: the quotient truncated toward zero *)
TruncDiv(a, b) ==
    IF (a >= 0) = (b > 0)
    THEN Abs(a) \div Abs(b)
    ELSE 0 - (Abs(a) \div Abs(b))

(* bigint a / b as evaluated: a zero divisor throws RangeError ("Division   *)
(* by zero"), otherwise the truncated quotient                             *)
BigIntDiv(a, b) ==
    IF b = 0 THEN [threw |-> TRUE, value |-> 0]
    ELSE [threw |-> FALSE, value |-> TruncDiv(a, b)]

(* lines 374-376 *)
mulDiv(a, b, scale) == BigIntDiv(a * b, scale)

(* toBasisPoints answering the whole (10000) for a zero total *)
toBasisPoints_wholeOfNothing(value, total) ==
    IF total = 0 THEN BPS_DENOMINATOR ELSE TruncDiv(value * BPS_DENOMINATOR, total)

toBasisPoints(value, total) ==
    IF total = 0 THEN 0 ELSE TruncDiv(value * BPS_DENOMINATOR, total)

(* the basis points added to the amount instead of taken from it *)
applyBasisPointReduction_added(amount, bps) ==
    TruncDiv(amount * (BPS_DENOMINATOR + bps), BPS_DENOMINATOR)

applyBasisPointReduction(amount, bps) ==
    TruncDiv(amount * (BPS_DENOMINATOR - bps), BPS_DENOMINATOR)

calculateGrossSpreadBps_clamped(amountIn, amountOut) ==
    IF amountIn = 0 THEN 0
    ELSE IF amountOut > amountIn
         THEN TruncDiv((amountOut - amountIn) * BPS_DENOMINATOR, amountIn)
         ELSE 0

calculateGrossSpreadBps(amountIn, amountOut) ==
    IF amountIn = 0 THEN 0
    ELSE LET profit == amountOut - amountIn
         IN  TruncDiv(profit * BPS_DENOMINATOR, amountIn)

applySlippage(amount, slippageBps) == applyBasisPointReduction(amount, slippageBps)

(* the multiple of the unit strictly below the value *)
roundDown_strictlyBelow(value, unit) ==
    LET quotient == BigIntDiv(value - 1, unit)
    IN  [threw |-> quotient.threw, value |-> quotient.value * unit]

(* lines 407-409: (value / unit) * unit *)
roundDown(value, unit) ==
    LET quotient == BigIntDiv(value, unit)
    IN  [threw |-> quotient.threw, value |-> quotient.value * unit]

(* ----------------------------------------------------------------------- *)
(* Harness for the pure functions of utils/math: the arguments are drawn   *)
(* at Init, one action per function applies it.                            *)
(* ----------------------------------------------------------------------- *)
(* amounts around zero and around multiples of the basis-point denominator *)
SpreadAmounts ==
    (0 .. MaxSmall) \cup
    { BPS_DENOMINATOR * s + d : s \in 1 .. MaxScale, d \in {0 - 1, 0, 1} }

(* the arguments of the calls: signed amounts, and scales for mulDiv *)
MathAmounts == SpreadAmounts \cup {0 - 1, 0 - BPS_DENOMINATOR}
MathScales == {0, 1, BPS_DENOMINATOR}

MathIdle(pc) ==
    /\ m_pc = pc
    /\ m_fn = Undefined
    /\ m_args = [a |-> 0, b |-> 0, c |-> 0, whole |-> <<>>, fractional |-> <<>>]
    /\ m_ret = Undefined

CallCalculateGrossSpreadBps ==
    /\ m_pc = "ready"
    /\ m_pc' = "done"
    /\ m_fn' = "calculateGrossSpreadBps"
    /\ m_ret' = calculateGrossSpreadBps(m_args.a, m_args.b)
    /\ UNCHANGED <<m_args, buildVars, syncVars, fetchVars, usdVars, pancakeVars, monVars, gapVars, scanVars, resolverVars, orchVars, routerVars>>

CallToBasisPoints ==
    /\ m_pc = "ready"
    /\ m_pc' = "done"
    /\ m_fn' = "toBasisPoints"
    /\ m_ret' = toBasisPoints(m_args.a, m_args.b)
    /\ UNCHANGED <<m_args, buildVars, syncVars, fetchVars, usdVars, pancakeVars, monVars, gapVars, scanVars, resolverVars, orchVars, routerVars>>

CallApplyBasisPointReduction ==
    /\ m_pc = "ready"
    /\ m_pc' = "done"
    /\ m_fn' = "applyBasisPointReduction"
    /\ m_ret' = applyBasisPointReduction(m_args.a, m_args.b)
    /\ UNCHANGED <<m_args, buildVars, syncVars, fetchVars, usdVars, pancakeVars, monVars, gapVars, scanVars, resolverVars, orchVars, routerVars>>

(* a call that throws leaves no return value *)
CallMulDiv ==
    /\ m_pc = "ready"
    /\ m_pc' = IF mulDiv(m_args.a, m_args.b, m_args.c).threw THEN "threw" ELSE "done"
    /\ m_fn' = "mulDiv"
    /\ m_ret' = mulDiv(m_args.a, m_args.b, m_args.c).value
    /\ UNCHANGED <<m_args, buildVars, syncVars, fetchVars, usdVars, pancakeVars, monVars, gapVars, scanVars, resolverVars, orchVars, routerVars>>

CallRoundDown ==
    /\ m_pc = "ready"
    /\ m_pc' = IF roundDown(m_args.a, m_args.b).threw THEN "threw" ELSE "done"
    /\ m_fn' = "roundDown"
    /\ m_ret' = roundDown(m_args.a, m_args.b).value
    /\ UNCHANGED <<m_args, buildVars, syncVars, fetchVars, usdVars, pancakeVars, monVars, gapVars, scanVars, resolverVars, orchVars, routerVars>>

MathNext ==
    \/ CallCalculateGrossSpreadBps
    \/ CallToBasisPoints
    \/ CallApplyBasisPointReduction
    \/ CallMulDiv
    \/ CallRoundDown

(* ----------------------------------------------------------------------- *)
(* utils/usdConverter: convertToUsd.  The price per token is the answer of *)
(* getTokenPriceUsdc (cache or reference quote), 0 when none was found.    *)
(* ----------------------------------------------------------------------- *)
RECURSIVE Pow10(_)
Pow10(n) == IF n = 0 THEN 1 ELSE 10 * Pow10(n - 1)

convertToUsd(metaKnown, decimals, priceUsdc, amount) ==
    IF ~metaKnown THEN 0
    ELSE IF priceUsdc = 0 THEN 0
    ELSE TruncDiv(amount * priceUsdc, Pow10(decimals))

(* ----------------------------------------------------------------------- *)
(* utils/math: formatAmount and parseAmount.  A decimal string is the      *)
(* sequence of its digits: the part before the point and the part after it *)
(* (empty when the string has no point).                                   *)
(* ----------------------------------------------------------------------- *)
(* BigInt(str) of a string of digits; BigInt('') is 0n *)
RECURSIVE DigitsToBigInt(_)
DigitsToBigInt(str) ==
    IF str = <<>> THEN 0
    ELSE 10 * DigitsToBigInt(SubSeq(str, 1, Len(str) - 1)) + str[Len(str)]

(* bigint.toString() *)
RECURSIVE BigIntToString(_)
BigIntToString(n) ==
    IF n < 10 THEN <<n>> ELSE Append(BigIntToString(n \div 10), n % 10)

(* str.padEnd(targetLength, '0'), str.padStart(targetLength, '0') and      *)
(* str.slice(0, end)                                                       *)
RECURSIVE padEnd(_, _)
padEnd(str, targetLength) ==
    IF Len(str) >= targetLength THEN str ELSE padEnd(Append(str, 0), targetLength)

RECURSIVE padStart(_, _)
padStart(str, targetLength) ==
    IF Len(str) >= targetLength THEN str ELSE padStart(<<0>> \o str, targetLength)

sliceTo(str, end) == SubSeq(str, 1, IF end < Len(str) THEN end ELSE Len(str))

(* lines 415-434 *)
formatAmount(amount, decimals, maxDecimals) ==
    LET divisor == Pow10(decimals)
        wholePart == TruncDiv(amount, divisor)
        fractionalPart == amount % divisor
    IN  IF fractionalPart = 0 /\ maxDecimals = 0
        THEN [whole |-> BigIntToString(wholePart), point |-> FALSE, fractional |-> <<>>]
        ELSE LET fractionalStr == padStart(BigIntToString(fractionalPart), decimals)
                 displayDecimals == IF maxDecimals < decimals THEN maxDecimals ELSE decimals
                 truncatedFractional == sliceTo(fractionalStr, displayDecimals)
                 paddedFractional == padEnd(truncatedFractional, displayDecimals)
             IN  [whole |-> BigIntToString(wholePart), point |-> TRUE,
                  fractional |-> paddedFractional]

(* parseAmount rounding the first dropped digit half up *)
parseAmount_rounded(whole, fractional, decimals) ==
    LET kept == sliceTo(padEnd(fractional, decimals), decimals)
        up == IF Len(fractional) > decimals /\ fractional[decimals + 1] >= 5 THEN 1 ELSE 0
    IN  DigitsToBigInt(whole) * Pow10(decimals) + DigitsToBigInt(kept) + up

(* lines 437-441 *)
parseAmount(whole, fractional, decimals) ==
    LET paddedFractional == sliceTo(padEnd(fractional, decimals), decimals)
    IN  DigitsToBigInt(whole) * Pow10(decimals) + DigitsToBigInt(paddedFractional)

(* the strings that pass /^\d+(\.\d+)?$/ (line 462), over a few digits,     *)
(* and the amounts formatted                                               *)
AmountDigits == {0, 5, 9}
FractionalStrings == UNION { [1 .. n -> AmountDigits] : n \in 0 .. MaxDigits }
WholeStrings == { <<0>>, <<1>>, <<1, 2>> }
FormattedAmounts == { 0, 1, 9, 10, 105, 1999 }

CallParseAmount ==
    /\ m_pc = "ready"
    /\ m_pc' = "done"
    /\ m_fn' = "parseAmount"
    /\ m_ret' = parseAmount(m_args.whole, m_args.fractional, m_args.b)
    /\ UNCHANGED <<m_args, buildVars, syncVars, fetchVars, usdVars, pancakeVars, monVars, gapVars, scanVars, resolverVars, orchVars, routerVars>>

CallFormatAmount ==
    /\ m_pc = "ready"
    /\ m_pc' = "done"
    /\ m_fn' = "formatAmount"
    /\ m_ret' = formatAmount(m_args.a, m_args.b, m_args.c)
    /\ UNCHANGED <<m_args, buildVars, syncVars, fetchVars, usdVars, pancakeVars, monVars, gapVars, scanVars, resolverVars, orchVars, routerVars>>

AmountsNext ==
    \/ CallParseAmount
    \/ CallFormatAmount

(* ----------------------------------------------------------------------- *)
(* opportunities/builder: estimateGasCost and buildOpportunity             *)
(* ----------------------------------------------------------------------- *)
flashloanOverhead == 120000
v3GasPerLeg == 150000
v2GasPerLeg == 180000

(* feeData.rejected: provider.getFeeData() rejects; a missing gasPrice is 0 *)
estimateGasCost(feeData, legCount) ==
    IF feeData.rejected THEN 0
    ELSE LET gasPrice == feeData.gasPrice
             avgGasPerLeg == TruncDiv(v3GasPerLeg + v2GasPerLeg, 2)
             totalGas == flashloanOverhead + (avgGasPerLeg * legCount)
         IN  gasPrice * totalGas

netProfitOf_signed(usdValueIn, usdValueOut, estimatedGasCostUsdc) ==
    LET grossProfitUsdc ==
            IF usdValueOut > usdValueIn THEN usdValueOut - usdValueIn ELSE 0
    IN  grossProfitUsdc - estimatedGasCostUsdc

netProfitOf(usdValueIn, usdValueOut, estimatedGasCostUsdc) ==
    LET grossProfitUsdc ==
            IF usdValueOut > usdValueIn THEN usdValueOut - usdValueIn ELSE 0
    IN  IF grossProfitUsdc > estimatedGasCostUsdc
        THEN grossProfitUsdc - estimatedGasCostUsdc
        ELSE 0

isRecognized(grossSpreadBps) == grossSpreadBps > 0

isExecutable_noSlippageGate(recognized, netProfitEst, minProfitUsdc, slipAdjSpreadBps) ==
    recognized /\ netProfitEst >= minProfitUsdc

isExecutable(recognized, netProfitEst, minProfitUsdc, slipAdjSpreadBps) ==
    recognized /\ netProfitEst >= minProfitUsdc /\ slipAdjSpreadBps > 0

(* strategy.json and the token registry, scaled to small decimals *)
BuildConfigs ==
    [ maxSlippageBps : {0, 50},
      minProfitUsdc  : {0, 3},
      decimalsA      : {2},
      decimalsWeth   : {5} ]

BuildAmountIn == BPS_DENOMINATOR \div 10
BuildOffsets == {0 - BuildAmountIn, 0 - 50, 0, 1, 4, 10, 100}
BuildPrices == {0, 100, 200}
WethPrices == {0, 2}
FeeDataAnswers ==
    {[rejected |-> TRUE, gasPrice |-> 0]} \cup
    {[rejected |-> FALSE, gasPrice |-> g] : g \in 0 .. 2}

BuildIdle(pc) ==
    /\ b_pc = pc
    /\ b_cfg = Undefined
    /\ b_in = Undefined
    /\ b_loc = Undefined
    /\ b_opp = Undefined

(* lines 156-173: metadata check and the two spreads, up to the first await *)
BuildStart ==
    /\ b_pc = "ready"
    /\ IF ~b_in.metaA \/ ~b_in.metaB
       THEN /\ b_pc' = "threw"
            /\ b_loc' = b_loc
       ELSE LET finalA == b_in.finalA
                grossSpreadBps == calculateGrossSpreadBps(b_in.amountIn, finalA)
                finalAWithSlip == applySlippage(finalA, b_cfg.maxSlippageBps)
                slipAdjSpreadBps == calculateGrossSpreadBps(b_in.amountIn, finalAWithSlip)
            IN  /\ b_pc' = "usdIn"
                /\ b_loc' = [ grossSpreadBps |-> grossSpreadBps,
                              slipAdjSpreadBps |-> slipAdjSpreadBps,
                              usdValueIn |-> 0, usdValueOut |-> 0,
                              estimatedGasCost |-> 0,
                              estimatedGasCostUsdc |-> 0 ]
    /\ UNCHANGED <<b_cfg, b_in, b_opp, mathVars, syncVars, fetchVars, usdVars, pancakeVars, monVars, gapVars, scanVars, resolverVars, orchVars, routerVars>>

(* line 176 *)
BuildUsdIn ==
    /\ b_pc = "usdIn"
    /\ \E price \in BuildPrices :
         b_loc' = [b_loc EXCEPT !.usdValueIn =
                      convertToUsd(TRUE, b_cfg.decimalsA, price, b_in.amountIn)]
    /\ b_pc' = "usdOut"
    /\ UNCHANGED <<b_cfg, b_in, b_opp, mathVars, syncVars, fetchVars, usdVars, pancakeVars, monVars, gapVars, scanVars, resolverVars, orchVars, routerVars>>

(* line 177 *)
BuildUsdOut ==
    /\ b_pc = "usdOut"
    /\ \E price \in BuildPrices :
         b_loc' = [b_loc EXCEPT !.usdValueOut =
                      convertToUsd(TRUE, b_cfg.decimalsA, price, b_in.finalA)]
    /\ b_pc' = "gas"
    /\ UNCHANGED <<b_cfg, b_in, b_opp, mathVars, syncVars, fetchVars, usdVars, pancakeVars, monVars, gapVars, scanVars, resolverVars, orchVars, routerVars>>

(* lines 180-184 *)
BuildGas ==
    /\ b_pc = "gas"
    /\ \E feeData \in FeeDataAnswers, wethPrice \in WethPrices :
         LET cost == estimateGasCost(feeData, 2)
         IN  b_loc' = [b_loc EXCEPT
                 !.estimatedGasCost = cost,
                 !.estimatedGasCostUsdc =
                     convertToUsd(TRUE, b_cfg.decimalsWeth, wethPrice, cost)]
    /\ b_pc' = "finish"
    /\ UNCHANGED <<b_cfg, b_in, b_opp, mathVars, syncVars, fetchVars, usdVars, pancakeVars, monVars, gapVars, scanVars, resolverVars, orchVars, routerVars>>

(* lines 187-214 *)
BuildFinish ==
    /\ b_pc = "finish"
    /\ LET netProfitEst ==
               netProfitOf(b_loc.usdValueIn, b_loc.usdValueOut, b_loc.estimatedGasCostUsdc)
           recognized == isRecognized(b_loc.grossSpreadBps)
           executable == isExecutable(recognized, netProfitEst,
                                      b_cfg.minProfitUsdc, b_loc.slipAdjSpreadBps)
       IN  b_opp' = [ amountIn |-> b_in.amountIn,
                      quoteBtoA_amountOut |-> b_in.finalA,
                      grossSpreadBps |-> b_loc.grossSpreadBps,
                      slipAdjSpreadBps |-> b_loc.slipAdjSpreadBps,
                      usdValueIn |-> b_loc.usdValueIn,
                      usdValueOut |-> b_loc.usdValueOut,
                      recognized |-> recognized,
                      executable |-> executable,
                      estimatedGasCost |-> b_loc.estimatedGasCost,
                      netProfitEst |-> netProfitEst ]
    /\ b_pc' = "returned"
    /\ UNCHANGED <<b_cfg, b_in, b_loc, mathVars, syncVars, fetchVars, usdVars, pancakeVars, monVars, gapVars, scanVars, resolverVars, orchVars, routerVars>>

BuildNext ==
    \/ BuildStart
    \/ BuildUsdIn
    \/ BuildUsdOut
    \/ BuildGas
    \/ BuildFinish

(* ----------------------------------------------------------------------- *)
(* Token registry (config/dexes.json): addresses are mixed-case strings;   *)
(* callers may spell them in either case.                                  *)
(* ----------------------------------------------------------------------- *)
WETH_ADDRESS == "0xWETH"
USDC_ADDRESS == "0xUSDC"
USDT_ADDRESS == "0xUSDT"
USDC_E_ADDRESS == "0xUSDC.e"
ZERO_ADDRESS == "0x0000000000000000000000000000000000000000"

toLowerCase(str) ==
    CASE str = "0xWETH" -> "0xweth"
      [] str = "0xUSDC" -> "0xusdc"
      [] str = "0xUSDT" -> "0xusdt"
      [] str = "0xUSDC.e" -> "0xusdc.e"
      [] str = "0XUSDC" -> "0xusdc"
      [] str = "0XUSDC.E" -> "0xusdc.e"
      [] str = "0xDAI" -> "0xdai"
      [] OTHER -> str

(* fetcher.getTokenSymbol: symbol of an address, compared in lower case *)
getTokenSymbol(address) ==
    LET addressLower == toLowerCase(address)
    IN  CASE addressLower = toLowerCase(WETH_ADDRESS) -> "WETH"
          [] addressLower = toLowerCase(USDC_ADDRESS) -> "USDC"
          [] addressLower = toLowerCase(USDT_ADDRESS) -> "USDT"
          [] OTHER -> Undefined

(* ----------------------------------------------------------------------- *)
(* prices/adapters/syncswap                                                *)
(* ----------------------------------------------------------------------- *)
MAX_CONSECUTIVE_ERRORS == 5
STABLE_SYMBOLS == {"USDC", "USDT"}
CLASSIC_POOL == "0xClassicPool"
STABLE_POOL == "0xStablePool"
DEFAULT_FEE_BPS == 30

(* the key made of the addresses as they are spelled *)
pairKey_asSpelled(tokenIn, tokenOut) == <<tokenIn, tokenOut>>

(* `${tokenIn.toLowerCase()}-${tokenOut.toLowerCase()}` *)
pairKey(tokenIn, tokenOut) == <<toLowerCase(tokenIn), toLowerCase(tokenOut)>>

isPairDisabled(disabled, tokenIn, tokenOut) ==
    pairKey(tokenIn, tokenOut) \in disabled

(* recordError: the new errorCounters and disabledPairs *)
recordError_counters(counters, tokenIn, tokenOut) ==
    LET key == pairKey(tokenIn, tokenOut)
        currentCount == counters[key]
        newCount == currentCount + 1
    IN  [counters EXCEPT ![key] = newCount]

recordError_disabled_never(counters, disabled, tokenIn, tokenOut) == disabled

recordError_disabled_early(counters, disabled, tokenIn, tokenOut) ==
    LET key == pairKey(tokenIn, tokenOut)
        newCount == counters[key] + 1
    IN  IF newCount >= MAX_CONSECUTIVE_ERRORS - 1
        THEN disabled \cup {key}
        ELSE disabled

recordError_disabled(counters, disabled, tokenIn, tokenOut) ==
    LET key == pairKey(tokenIn, tokenOut)
        newCount == counters[key] + 1
    IN  IF newCount >= MAX_CONSECUTIVE_ERRORS
        THEN disabled \cup {key}
        ELSE disabled

(* recordSuccess: errorCounters.delete(pairKey); an absent entry reads as 0 *)
recordSuccess_keeps(counters, tokenIn, tokenOut) == counters

recordSuccess(counters, tokenIn, tokenOut) ==
    [counters EXCEPT ![pairKey(tokenIn, tokenOut)] = 0]

(* recordSuccess leaves disabledPairs alone *)
recordSuccess_disabled_reenables(disabled, tokenIn, tokenOut) ==
    disabled \ {pairKey(tokenIn, tokenOut)}

recordSuccess_disabled(disabled, tokenIn, tokenOut) == disabled

isStablePair(tokenInSymbol, tokenOutSymbol) ==
    tokenInSymbol \in STABLE_SYMBOLS /\ tokenOutSymbol \in STABLE_SYMBOLS

(* answers of one factory.getPool call *)
FactoryAnswers(pool) ==
    { [threw |-> TRUE, pool |-> ""],
      [threw |-> FALSE, pool |-> ZERO_ADDRESS],
      [threw |-> FALSE, pool |-> pool] }

(* discoverPools: "" where the factory call failed or found no pool *)
discoverPools(classicAnswer, stableAnswer) ==
    [ classic |-> IF ~classicAnswer.threw /\ classicAnswer.pool # ""
                     /\ classicAnswer.pool # ZERO_ADDRESS
                  THEN classicAnswer.pool ELSE "",
      stable  |-> IF ~stableAnswer.threw /\ stableAnswer.pool # ""
                     /\ stableAnswer.pool # ZERO_ADDRESS
                  THEN stableAnswer.pool ELSE "" ]

(* pool selection, lines 571-589 *)
selectPool(pools, tokenInSymbol, tokenOutSymbol) ==
    IF /\ pools.stable # ""
       /\ tokenInSymbol # Undefined
       /\ tokenOutSymbol # Undefined
       /\ isStablePair(tokenInSymbol, tokenOutSymbol)
    THEN [selectedPool |-> pools.stable, poolType |-> "stable"]
    ELSE IF pools.classic # ""
         THEN [selectedPool |-> pools.classic, poolType |-> "classic"]
         ELSE [selectedPool |-> pools.stable, poolType |-> "stable"]

(* answers of one staticCall of a quote ABI *)
ProbeAnswers ==
    {[threw |-> TRUE, amountOut |-> 0]} \cup
    {[threw |-> FALSE, amountOut |-> a] : a \in 0 .. MaxOut}

(* one staticCall made by probeQuoteABIs and how it ended *)
ProbeCall(abi, answer) == [abi |-> abi, failed |-> answer.threw]

(* probeQuoteABIs with ABI B probed before ABI A *)
probeQuoteABIs_bFirst(answerA, answerB) ==
    IF ~answerB.threw
    THEN [ success |-> TRUE, amountOut |-> answerB.amountOut, method |-> "ABI_B",
           tried |-> <<ProbeCall("ABI_B", answerB)>> ]
    ELSE IF ~answerA.threw
         THEN [ success |-> TRUE, amountOut |-> answerA.amountOut, method |-> "ABI_A",
                tried |-> <<ProbeCall("ABI_B", answerB), ProbeCall("ABI_A", answerA)>> ]
         ELSE [ success |-> FALSE, amountOut |-> 0, method |-> Undefined,
                tried |-> <<ProbeCall("ABI_B", answerB), ProbeCall("ABI_A", answerA)>> ]

(* probeQuoteABIs: ABI A, then ABI B, then failure; tried lists the        *)
(* staticCalls awaited, in order                                           *)
probeQuoteABIs(answerA, answerB) ==
    IF ~answerA.threw
    THEN [ success |-> TRUE, amountOut |-> answerA.amountOut, method |-> "ABI_A",
           tried |-> <<ProbeCall("ABI_A", answerA)>> ]
    ELSE IF ~answerB.threw
         THEN [ success |-> TRUE, amountOut |-> answerB.amountOut, method |-> "ABI_B",
                tried |-> <<ProbeCall("ABI_A", answerA), ProbeCall("ABI_B", answerB)>> ]
         ELSE [ success |-> FALSE, amountOut |-> 0, method |-> Undefined,
                tried |-> <<ProbeCall("ABI_A", answerA), ProbeCall("ABI_B", answerB)>> ]

(* what the pool answers to the state getters: the token getters, the      *)
(* reserve getters (getReserves, reserves, reserve0/reserve1 in turn) and  *)
(* the fee getters (fee, getFee, feeBasisPoints in turn)                   *)
Reserves == 0 .. MaxReserve
PoolStateAnswers ==
    [ tokensOk : {FALSE}, token0IsIn : {TRUE}, reservesOk : {FALSE},
      reserve0 : {0}, reserve1 : {0}, feeOk : {FALSE}, fee : {0} ]
    \cup
    [ tokensOk : {TRUE}, token0IsIn : {TRUE}, reservesOk : {FALSE},
      reserve0 : {0}, reserve1 : {0}, feeOk : {FALSE}, fee : {0} ]
    \cup
    [ tokensOk : {TRUE}, token0IsIn : BOOLEAN, reservesOk : {TRUE},
      reserve0 : Reserves, reserve1 : Reserves, feeOk : {FALSE}, fee : {0} ]
    \cup
    [ tokensOk : {TRUE}, token0IsIn : BOOLEAN, reservesOk : {TRUE},
      reserve0 : Reserves, reserve1 : Reserves, feeOk : {TRUE},
      fee : {BPS_DENOMINATOR} ]

(* readPoolState: null, or the PoolState *)
NullPoolState ==
    [ isNull |-> TRUE, token0 |-> "", token1 |-> "",
      reserve0 |-> 0, reserve1 |-> 0, fee |-> 0 ]

readPoolState(answer, tokenIn, tokenOut) ==
    IF ~answer.tokensOk THEN NullPoolState
    ELSE IF ~answer.reservesOk THEN NullPoolState
    ELSE [ isNull |-> FALSE,
           token0 |-> IF answer.token0IsIn THEN tokenIn ELSE tokenOut,
           token1 |-> IF answer.token0IsIn THEN tokenOut ELSE tokenIn,
           reserve0 |-> answer.reserve0,
           reserve1 |-> answer.reserve1,
           fee |-> IF answer.feeOk THEN answer.fee ELSE DEFAULT_FEE_BPS ]

(* calculateConstantProductQuote; threw when the divisor is zero *)
calculateConstantProductQuote(state, tokenIn, amountIn) ==
    LET isToken0 == toLowerCase(tokenIn) = toLowerCase(state.token0)
        reserveIn == IF isToken0 THEN state.reserve0 ELSE state.reserve1
        reserveOut == IF isToken0 THEN state.reserve1 ELSE state.reserve0
        feeBps == state.fee
        amountInAfterFee ==
            TruncDiv(amountIn * (BPS_DENOMINATOR - feeBps), BPS_DENOMINATOR)
    IN  IF reserveIn + amountInAfterFee = 0
        THEN [threw |-> TRUE, amountOut |-> 0]
        ELSE [threw |-> FALSE,
              amountOut |-> TruncDiv(amountInAfterFee * reserveOut,
                                     reserveIn + amountInAfterFee)]

(* SyncSwapQuoteResult *)
SyncResult(success, amountOut, poolAddress, poolType, method, error, disabled) ==
    [ success |-> success, amountOut |-> amountOut, poolAddress |-> poolAddress,
      poolType |-> poolType, method |-> method, error |-> error,
      disabled |-> disabled ]

DisabledResult ==
    SyncResult(FALSE, 0, Undefined, Undefined, Undefined,
               "SyncSwap disabled for this pair after 5 consecutive failures", TRUE)

NoPoolsResult ==
    SyncResult(FALSE, 0, Undefined, Undefined, Undefined, "No pools found", Undefined)

AllFailedResult(selectedPool, poolType) ==
    SyncResult(FALSE, 0, selectedPool, poolType, Undefined,
               "All quote methods failed", Undefined)

(* the spelled pairs quoted in the model and their counters *)
SyncPairs ==
    { <<WETH_ADDRESS, USDC_ADDRESS>>,
      <<toLowerCase(WETH_ADDRESS), toLowerCase(USDC_ADDRESS)>>,
      <<USDC_ADDRESS, WETH_ADDRESS>> }
(* the keys of the two maps: those pairs and the pair the fetcher quotes *)
SyncKeys == { pairKey(p[1], p[2]) : p \in SyncPairs \cup {<<USDC_ADDRESS, USDT_ADDRESS>>} }
SyncAmountIn == BuildAmountIn

NoResult ==
    SyncResult(FALSE, 0, Undefined, Undefined, Undefined, Undefined, Undefined)

(* s_last: the latest step of the adapter seen by its callers; before is   *)
(* the pair's counter as it was when that step began                       *)
NoLast == [ op |-> "none", key |-> <<"", "">>, before |-> 0,
            netCalls |-> 0, probes |-> <<>>, stateRead |-> FALSE,
            result |-> NoResult ]

(* calls: the bag of getSyncSwapQuote calls waiting on the network *)
InFlight(c) == IF c \in DOMAIN calls THEN calls[c] ELSE 0
CallCount == BagCardinality(calls)

SyncIdle(disabled) ==
    /\ errorCounters = [k \in SyncKeys |-> 0]
    /\ disabledPairs = disabled
    /\ calls = EmptyBag
    /\ s_last = NoLast
    /\ streak = [k \in SyncKeys |-> 0]
    /\ tripped = {}

(* the shared-state effect of the tail of getSyncSwapQuote *)
RecordsError(tokenIn, tokenOut) ==
    /\ errorCounters' = recordError_counters(errorCounters, tokenIn, tokenOut)
    /\ disabledPairs' =
          recordError_disabled(errorCounters, disabledPairs, tokenIn, tokenOut)

RecordsSuccess(tokenIn, tokenOut) ==
    /\ errorCounters' = recordSuccess(errorCounters, tokenIn, tokenOut)
    /\ disabledPairs' = recordSuccess_disabled(disabledPairs, tokenIn, tokenOut)

(* getSyncSwapQuote after the disabled check, lines 556-686, run against   *)
(* every answer of the network: the set of its outcomes, each with the     *)
(* result returned, the bookkeeping call made in the same turn as the      *)
(* return (recordError or recordSuccess) and the network calls awaited     *)
(* (discovery 2, probes 1 or 2, state reads 1).                            *)
SyncOutcome(result, records, probes, stateRead) ==
    [ result |-> result, records |-> records, probes |-> probes,
      stateRead |-> stateRead,
      netCalls |-> 2 + Len(probes) + (IF stateRead THEN 1 ELSE 0) ]

getSyncSwapQuote_network(tokenIn, tokenOut, amountIn) ==
    UNION {
      LET pools == discoverPools(ca, sa)
          sel == selectPool(pools, getTokenSymbol(tokenIn), getTokenSymbol(tokenOut))
      IN  IF pools.classic = "" /\ pools.stable = ""
          THEN { SyncOutcome(NoPoolsResult, "recordError", <<>>, FALSE) }
          ELSE UNION {
            LET quoteResult == probeQuoteABIs(a, b)
                probes == quoteResult.tried
            IN  IF quoteResult.success
                THEN { SyncOutcome(SyncResult(TRUE, quoteResult.amountOut,
                                              sel.selectedPool, sel.poolType,
                                              quoteResult.method, Undefined, Undefined),
                                   "recordSuccess", probes, FALSE) }
                ELSE IF sel.poolType = "classic"
                THEN {
                  LET poolState == readPoolState(answer, tokenIn, tokenOut)
                      quote == IF poolState.isNull
                               THEN [threw |-> TRUE, amountOut |-> 0]
                               ELSE calculateConstantProductQuote(poolState,
                                                                  tokenIn, amountIn)
                  IN  IF ~poolState.isNull /\ ~quote.threw
                      THEN SyncOutcome(SyncResult(TRUE, quote.amountOut,
                                                  sel.selectedPool, sel.poolType,
                                                  "off-chain-classic",
                                                  Undefined, Undefined),
                                       "recordSuccess", probes, TRUE)
                      ELSE SyncOutcome(AllFailedResult(sel.selectedPool, sel.poolType),
                                       "recordError", probes, TRUE)
                  : answer \in PoolStateAnswers }
                ELSE { SyncOutcome(AllFailedResult(sel.selectedPool, sel.poolType),
                                   "recordError", probes, FALSE) }
            : a \in ProbeAnswers, b \in ProbeAnswers }
      : ca \in FactoryAnswers(CLASSIC_POOL), sa \in FactoryAnswers(STABLE_POOL) }

(* the outcomes of getSyncSwapQuote for each spelled pair of the model *)
SyncOutcomes ==
    [ p \in SyncPairs |-> getSyncSwapQuote_network(p[1], p[2], SyncAmountIn) ]

(* the call c returns: the outcome is logged in s_last, and the failures   *)
(* of the pair since its last success are counted in streak from the       *)
(* returned result alone                                                   *)
Returned(c, o) ==
    LET key == pairKey(c.tokenIn, c.tokenOut)
        n == IF o.result.success THEN 0 ELSE streak[key] + 1
    IN  /\ calls' = calls (-) SetToBag({c})
        /\ s_last' = [ op |-> "returned", key |-> key,
                       before |-> errorCounters[key],
                       netCalls |-> o.netCalls, probes |-> o.probes,
                       stateRead |-> o.stateRead, result |-> o.result ]
        /\ streak' = [streak EXCEPT ![key] = n]
        /\ tripped' = IF n >= MAX_CONSECUTIVE_ERRORS
                      THEN tripped \cup {key} ELSE tripped

(* lines 539-547: the disabled pair is answered without a network call *)
ShortCircuited(tokenIn, tokenOut) ==
    s_last' = [ op |-> "shortcut", key |-> pairKey(tokenIn, tokenOut),
                before |-> errorCounters[pairKey(tokenIn, tokenOut)],
                netCalls |-> 0, probes |-> <<>>, stateRead |-> FALSE,
                result |-> DisabledResult ]

(* lines 526-557: the disabled check; a pair that is not disabled goes to  *)
(* the network (discoverPools is awaited)                                  *)
SyncStart ==
    /\ \E p \in SyncPairs :
         IF isPairDisabled(disabledPairs, p[1], p[2])
         THEN /\ ShortCircuited(p[1], p[2])
              /\ UNCHANGED calls
         ELSE /\ CallCount < MaxInFlight
              /\ calls' = calls (+) SetToBag({[ tokenIn |-> p[1], tokenOut |-> p[2],
                                                amountIn |-> SyncAmountIn ]})
              /\ s_last' = [ op |-> "started", key |-> pairKey(p[1], p[2]),
                             before |-> errorCounters[pairKey(p[1], p[2])],
                             netCalls |-> 0, probes |-> <<>>, stateRead |-> FALSE,
                             result |-> NoResult ]
    /\ UNCHANGED <<errorCounters, disabledPairs, streak, tripped>>
    /\ UNCHANGED <<mathVars, buildVars, fetchVars, usdVars, pancakeVars, monVars, gapVars, scanVars, resolverVars, orchVars, routerVars>>

(* lines 557-686: the network has answered a call in flight *)
SyncComplete ==
    /\ \E c \in BagToSet(calls) :
         \E o \in SyncOutcomes[<<c.tokenIn, c.tokenOut>>] :
           /\ IF o.records = "recordSuccess"
              THEN RecordsSuccess(c.tokenIn, c.tokenOut)
              ELSE RecordsError(c.tokenIn, c.tokenOut)
           /\ Returned(c, o)
    /\ UNCHANGED <<mathVars, buildVars, fetchVars, usdVars, pancakeVars, monVars, gapVars, scanVars, resolverVars, orchVars, routerVars>>

(* resetSyncSwapState *)
ResetSyncSwapState ==
    /\ errorCounters' = [k \in SyncKeys |-> 0]
    /\ disabledPairs' = {}
    /\ s_last' = [NoLast EXCEPT !.op = "reset"]
    /\ streak' = [k \in SyncKeys |-> 0]
    /\ tripped' = {}
    /\ UNCHANGED calls
    /\ UNCHANGED <<mathVars, buildVars, fetchVars, usdVars, pancakeVars, monVars, gapVars, scanVars, resolverVars, orchVars, routerVars>>

SyncNext ==
    \/ SyncStart
    \/ SyncComplete
    \/ ResetSyncSwapState

(* ----------------------------------------------------------------------- *)
(* prices/fetcher: the venue adapters                                      *)
(* ----------------------------------------------------------------------- *)
ADAPTERS == <<"mute", "syncswap_v1", "pancakeswap_v3", "velocore">>
VELOCORE_POOL == "0xVelocorePool"

(* what a failing network call is rejected with: an Error carrying the     *)
(* message of the provider or of the per-path timer, or a value that is    *)
(* not an Error                                                            *)
ErrorMessages == {"timeout", "execution reverted", "could not detect network"}
NotAnError == [isError |-> FALSE, message |-> ""]
ThrownValues ==
    {[isError |-> TRUE, message |-> m] : m \in ErrorMessages} \cup {NotAnError}

(* answers of one awaited contract call *)
CallAnswers ==
    {[threw |-> TRUE, error |-> e, amountOut |-> 0] : e \in ThrownValues} \cup
    {[threw |-> FALSE, error |-> NotAnError, amountOut |-> a] : a \in 0 .. MaxOut}

(* error instanceof Error ? error.message : "Unknown error" *)
errorMessageOf(error) ==
    IF error.isError THEN error.message ELSE "Unknown error"

(* String.prototype.includes on the messages of the model *)
includes(message, searchString) ==
    CASE searchString = "timeout" -> message = "timeout"
      [] searchString = "revert" -> message = "execution reverted"
      [] searchString = "insufficient" -> FALSE
      [] OTHER -> message = searchString

(* DexPrice; metadata is kept as its poolAddress and feeTiers *)
Quote(dex, tokenIn, tokenOut, amountIn, amountOut, success, error, poolAddress) ==
    [ dex |-> dex, tokenIn |-> tokenIn, tokenOut |-> tokenOut,
      amountIn |-> amountIn, amountOut |-> amountOut, success |-> success,
      error |-> error, poolAddress |-> poolAddress, feeTiers |-> <<>> ]

(* metadata.feeTiers of a PancakeSwap quote *)
withFeeTiers(quote, fees) == [quote EXCEPT !.feeTiers = fees]

NoQuote == Quote("", "", "", 0, 0, FALSE, Undefined, Undefined)

(* an adapter call settles: it rejects (threw) or resolves with a quote *)
Rejects == [threw |-> TRUE, quote |-> NoQuote]
Resolves(quote) == [threw |-> FALSE, quote |-> quote]

(* fetchMutePrice; prologueThrew: a statement of lines 109-114, outside    *)
(* the try block, threw; answer: what router.getAmountsOut answered        *)
fetchMutePrice_uncaught(tokenIn, tokenOut, amountIn, prologueThrew, answer) ==
    IF prologueThrew THEN Rejects
    ELSE IF ~answer.threw
    THEN Resolves(Quote("mute", tokenIn, tokenOut, amountIn, answer.amountOut,
                        TRUE, Undefined, Undefined))
    ELSE Rejects

fetchMutePrice(tokenIn, tokenOut, amountIn, prologueThrew, answer) ==
    IF prologueThrew THEN Rejects
    ELSE IF ~answer.threw
    THEN Resolves(Quote("mute", tokenIn, tokenOut, amountIn, answer.amountOut,
                        TRUE, Undefined, Undefined))
    ELSE Resolves(Quote("mute", tokenIn, tokenOut, amountIn, 0,
                        FALSE, errorMessageOf(answer.error), Undefined))

(* fetchSyncSwapV1Price; result: what getSyncSwapQuote returned *)
fetchSyncSwapV1Price(tokenIn, tokenOut, amountIn, prologueThrew, result) ==
    IF prologueThrew THEN Rejects
    ELSE IF result.success
    THEN Resolves(Quote("syncswap_v1", tokenIn, tokenOut, amountIn,
                        result.amountOut, TRUE, Undefined, result.poolAddress))
    ELSE Resolves(Quote("syncswap_v1", tokenIn, tokenOut, amountIn, 0,
                        FALSE, result.error, Undefined))

(* fetchPancakeSwapV3Price: the paths in the order they are started *)
feeTiers == <<500, 2500>>
intermediateTokens ==
    << [address |-> USDC_ADDRESS, symbol |-> "USDC"],
       [address |-> USDT_ADDRESS, symbol |-> "USDT"] >>

directPathType(fee) ==
    IF fee = feeTiers[1] THEN "direct (fee: 500)" ELSE "direct (fee: 2500)"

multiHopPathType(symbol) ==
    IF symbol = "USDC" THEN "multi-hop via USDC" ELSE "multi-hop via USDT"

directPaths ==
    [ i \in 1 .. Len(feeTiers) |->
        [pathType |-> directPathType(feeTiers[i]), feeTiers |-> <<feeTiers[i]>>] ]

multiHopPaths(tokenIn, tokenOut, intermediate) ==
    LET tokenInLower == toLowerCase(tokenIn)
        tokenOutLower == toLowerCase(tokenOut)
        intermediateLower == toLowerCase(intermediate.address)
    IN  IF \/ tokenInLower = intermediateLower
           \/ tokenOutLower = intermediateLower
           \/ tokenInLower = tokenOutLower
        THEN <<>>
        ELSE [ i \in 1 .. Len(feeTiers) * Len(feeTiers) |->
                 [ pathType |-> multiHopPathType(intermediate.symbol),
                   feeTiers |-> << feeTiers[((i - 1) \div Len(feeTiers)) + 1],
                                   feeTiers[((i - 1) % Len(feeTiers)) + 1] >> ] ]

pancakePaths(tokenIn, tokenOut) ==
    directPaths \o multiHopPaths(tokenIn, tokenOut, intermediateTokens[1])
                \o multiHopPaths(tokenIn, tokenOut, intermediateTokens[2])

(* tryPathWithTimeout: the PathAttempt of one path; a timeout is the       *)
(* rejection of the race with the message "timeout"                        *)
tryPathWithTimeout(path, answer) ==
    IF ~answer.threw
    THEN [ pathType |-> path.pathType, feeTiers |-> path.feeTiers,
           amountOut |-> answer.amountOut, success |-> TRUE, error |-> Undefined ]
    ELSE LET errorMessage == errorMessageOf(answer.error)
             reason == IF includes(errorMessage, "timeout") THEN "timeout"
                       ELSE IF \/ includes(errorMessage, "revert")
                               \/ includes(errorMessage, "insufficient")
                            THEN "revert/insufficient liquidity"
                            ELSE "error"
         IN  [ pathType |-> path.pathType, feeTiers |-> path.feeTiers,
               amountOut |-> 0, success |-> FALSE, error |-> reason ]

(* lines 434-439: index of the best successful attempt, 0 for none *)
RECURSIVE bestAttemptFrom_first(_, _, _)
bestAttemptFrom_first(pathAttempts, i, bestAttempt) ==
    IF i > Len(pathAttempts) THEN bestAttempt
    ELSE IF pathAttempts[i].success /\ bestAttempt = 0
         THEN bestAttemptFrom_first(pathAttempts, i + 1, i)
         ELSE bestAttemptFrom_first(pathAttempts, i + 1, bestAttempt)

RECURSIVE bestAttemptFrom(_, _, _)
bestAttemptFrom(pathAttempts, i, bestAttempt) ==
    IF i > Len(pathAttempts) THEN bestAttempt
    ELSE IF /\ pathAttempts[i].success
            /\ (bestAttempt = 0 \/
                pathAttempts[i].amountOut > pathAttempts[bestAttempt].amountOut)
         THEN bestAttemptFrom(pathAttempts, i + 1, i)
         ELSE bestAttemptFrom(pathAttempts, i + 1, bestAttempt)

(* pathAttempts.find(a => a.error)?.error || "Unknown error" *)
firstErrorOf(pathAttempts) ==
    LET withError == { i \in 1 .. Len(pathAttempts) :
                         pathAttempts[i].error \notin {Undefined, ""} }
    IN  IF withError = {} THEN "Unknown error"
        ELSE pathAttempts[CHOOSE i \in withError : \A j \in withError : i <= j].error

(* lines 433-517: the Quote selected from the collected attempts *)
selectPancakeQuote(tokenIn, tokenOut, amountIn, pathAttempts) ==
    LET bestAttempt == bestAttemptFrom(pathAttempts, 1, 0)
    IN  IF bestAttempt # 0
        THEN Resolves(withFeeTiers(
                 Quote("pancakeswap_v3", tokenIn, tokenOut, amountIn,
                       pathAttempts[bestAttempt].amountOut, TRUE, Undefined,
                       pathAttempts[bestAttempt].pathType),
                 pathAttempts[bestAttempt].feeTiers))
        ELSE Resolves(Quote("pancakeswap_v3", tokenIn, tokenOut, amountIn, 0,
                            FALSE, firstErrorOf(pathAttempts), Undefined))

(* answers[i]: what the quoter (or the timer) answered for the i-th path *)
fetchPancakeSwapV3Price(tokenIn, tokenOut, amountIn, prologueThrew, answers) ==
    IF prologueThrew THEN Rejects
    ELSE
    LET paths == pancakePaths(tokenIn, tokenOut)
        pathAttempts == [ i \in 1 .. Len(paths) |->
                            tryPathWithTimeout(paths[i], answers[i]) ]
    IN  selectPancakeQuote(tokenIn, tokenOut, amountIn, pathAttempts)

(* adapters/velocore getVelocoreQuote: getAmountOut, then querySwap *)
getVelocoreQuote(answer1, answer2) ==
    IF ~answer1.threw
    THEN [success |-> TRUE, amountOut |-> answer1.amountOut, error |-> Undefined]
    ELSE IF ~answer2.threw
         THEN [success |-> TRUE, amountOut |-> answer2.amountOut, error |-> Undefined]
         ELSE [success |-> FALSE, amountOut |-> 0,
               error |-> "All Velocore quote methods failed"]

(* fetchVelocorePrice *)
fetchVelocorePrice(poolAddress, tokenIn, tokenOut, amountIn, prologueThrew, answer1, answer2) ==
    IF prologueThrew THEN Rejects
    ELSE IF poolAddress \in {Undefined, ""} \/ poolAddress = ZERO_ADDRESS
    THEN Resolves(Quote("velocore", tokenIn, tokenOut, amountIn, 0,
                        FALSE, "Pool address not configured", Undefined))
    ELSE LET result == getVelocoreQuote(answer1, answer2)
         IN  IF result.success
             THEN Resolves(Quote("velocore", tokenIn, tokenOut, amountIn,
                                 result.amountOut, TRUE, Undefined, Undefined))
             ELSE Resolves(Quote("velocore", tokenIn, tokenOut, amountIn, 0,
                                 FALSE, result.error, Undefined))

(* ----------------------------------------------------------------------- *)
(* opportunities/builder fetchBestQuote                                    *)
(* ----------------------------------------------------------------------- *)
NullQuote == [isNull |-> TRUE, quote |-> NoQuote, path |-> ""]

EnhancedQuote(quote) ==
    [ isNull |-> FALSE, quote |-> quote,
      path |-> IF quote.poolAddress \in {Undefined, ""}
               THEN "direct" ELSE quote.poolAddress ]

(* lines 85-98: the loop over the quotes *)
RECURSIVE bestQuoteFrom(_, _, _, _)
bestQuoteFrom(quotes, i, best, bestAmountOut) ==
    IF i > Len(quotes) THEN best
    ELSE IF quotes[i].success /\ quotes[i].amountOut > bestAmountOut
         THEN bestQuoteFrom(quotes, i + 1, EnhancedQuote(quotes[i]),
                            quotes[i].amountOut)
         ELSE bestQuoteFrom(quotes, i + 1, best, bestAmountOut)

fetchBestQuote(quotes) == bestQuoteFrom(quotes, 1, NullQuote, 0)

(* ----------------------------------------------------------------------- *)
(* fetchAllPrices driven by fetchBestQuote                                 *)
(* ----------------------------------------------------------------------- *)
(* config.dexes.*.enabled and config.dexes.velocore.pool *)
FetchConfigs ==
    { c \in [ enabled : [{ADAPTERS[i] : i \in 1 .. Len(ADAPTERS)} -> BOOLEAN],
              velocorePool : {Undefined, ZERO_ADDRESS, VELOCORE_POOL} ] :
        ~c.enabled["velocore"] => c.velocorePool = Undefined }

FetchInputs ==
    [ tokenIn : {USDC_ADDRESS}, tokenOut : {USDT_ADDRESS}, amountIn : {SyncAmountIn} ]

(* the enabled adapters in declaration order *)
EnabledAdapters(cfg) ==
    SelectSeq(ADAPTERS, LAMBDA dex : cfg.enabled[dex])

(* the next `if (this.config.dexes.X.enabled)` that is taken after the     *)
(* i-th adapter, or "collect" at `return prices`                           *)
nextEnabled(cfg, i) ==
    LET later == { j \in (i + 1) .. Len(ADAPTERS) : cfg.enabled[ADAPTERS[j]] }
    IN  IF later = {} THEN "collect"
        ELSE ADAPTERS[CHOOSE j \in later : \A k \in later : j <= k]

(* prices.push(quote) *)
pushPrice_front(list, quote) == <<quote>> \o list

pushPrice(list, quote) == Append(list, quote)

(* the paths fetchMutePrice passes to router.getAmountsOut, in order *)
muteRouterPaths(tokenIn, tokenOut, prologueThrew) ==
    IF prologueThrew THEN <<>> ELSE << <<tokenIn, tokenOut>> >>

NoAdapterCall ==
    [dex |-> "", prologueThrew |-> FALSE, threw |-> FALSE, routerPaths |-> <<>>]

FetchIdle(pc) ==
    /\ f_pc = pc
    /\ f_cfg = [ enabled |-> [d \in {ADAPTERS[i] : i \in 1 .. Len(ADAPTERS)} |-> FALSE],
                 velocorePool |-> Undefined ]
    /\ f_in = [tokenIn |-> "", tokenOut |-> "", amountIn |-> 0]
    /\ prices = <<>>
    /\ f_invoked = <<>>
    /\ f_last = NoAdapterCall
    /\ bestQuote = NullQuote

(* `const x = await this.fetchX(...); prices.push(x)` in fetchAllPrices:   *)
(* the i-th adapter settled with r.  Nothing in fetchAllPrices or in       *)
(* fetchBestQuote handles a rejection, so it rejects both.                 *)
AdapterSettles(i, prologueThrew, r) ==
    /\ f_invoked' = Append(f_invoked, ADAPTERS[i])
    /\ f_last' = [dex |-> ADAPTERS[i], prologueThrew |-> prologueThrew,
                  threw |-> r.threw,
                  routerPaths |-> IF ADAPTERS[i] = "mute"
                                  THEN muteRouterPaths(f_in.tokenIn, f_in.tokenOut,
                                                       prologueThrew)
                                  ELSE <<>>]
    /\ IF r.threw
       THEN /\ f_pc' = "rejected"
            /\ UNCHANGED prices
       ELSE /\ f_pc' = nextEnabled(f_cfg, i)
            /\ prices' = pushPrice(prices, r.quote)
    /\ UNCHANGED <<f_cfg, f_in, bestQuote>>

(* builder.ts 82 and fetcher.ts 527-530: a fetchBestQuote call begins *)
FetchBestQuoteCall ==
    /\ f_pc \in {"ready", "returned", "rejected"}
    /\ f_pc' = nextEnabled(f_cfg, 0)
    /\ prices' = <<>>
    /\ f_invoked' = <<>>
    /\ f_last' = NoAdapterCall
    /\ bestQuote' = NullQuote
    /\ UNCHANGED <<f_cfg, f_in>>
    /\ UNCHANGED <<mathVars, buildVars, syncVars, usdVars, pancakeVars, monVars, gapVars, scanVars, resolverVars, orchVars, routerVars>>

FetchMutePrice ==
    /\ f_pc = "mute"
    /\ \E prologueThrew \in BOOLEAN, answer \in CallAnswers :
         AdapterSettles(1, prologueThrew,
                        fetchMutePrice(f_in.tokenIn, f_in.tokenOut, f_in.amountIn,
                                       prologueThrew, answer))
    /\ UNCHANGED <<mathVars, buildVars, syncVars, usdVars, pancakeVars, monVars, gapVars, scanVars, resolverVars, orchVars, routerVars>>

(* the shared state of the SyncSwap adapter is touched as in SyncStart and *)
(* SyncComplete, the call not overlapping with another                     *)
FetchSyncSwapV1Price ==
    /\ f_pc = "syncswap_v1"
    /\ LET c == f_in
       IN \E prologueThrew \in BOOLEAN :
         IF prologueThrew
         THEN /\ AdapterSettles(2, TRUE,
                     fetchSyncSwapV1Price(c.tokenIn, c.tokenOut, c.amountIn,
                                          TRUE, NoResult))
              /\ UNCHANGED syncVars
         ELSE IF isPairDisabled(disabledPairs, c.tokenIn, c.tokenOut)
         THEN /\ ShortCircuited(c.tokenIn, c.tokenOut)
              /\ UNCHANGED <<errorCounters, disabledPairs, calls, streak, tripped>>
              /\ AdapterSettles(2, FALSE,
                     fetchSyncSwapV1Price(c.tokenIn, c.tokenOut, c.amountIn,
                                          FALSE, DisabledResult))
         ELSE \E o \in getSyncSwapQuote_network(c.tokenIn, c.tokenOut, c.amountIn) :
              /\ IF o.records = "recordSuccess"
                 THEN RecordsSuccess(c.tokenIn, c.tokenOut)
                 ELSE RecordsError(c.tokenIn, c.tokenOut)
              /\ Returned(c, o)
              /\ AdapterSettles(2, FALSE,
                     fetchSyncSwapV1Price(c.tokenIn, c.tokenOut, c.amountIn,
                                          FALSE, o.result))
    /\ UNCHANGED <<mathVars, buildVars, usdVars, pancakeVars, monVars, gapVars, scanVars, resolverVars, orchVars, routerVars>>

FetchPancakeSwapV3Price ==
    /\ f_pc = "pancakeswap_v3"
    /\ \E prologueThrew \in BOOLEAN :
       \E answers \in [1 .. Len(pancakePaths(f_in.tokenIn, f_in.tokenOut))
                         -> CallAnswers] :
         AdapterSettles(3, prologueThrew,
                        fetchPancakeSwapV3Price(f_in.tokenIn, f_in.tokenOut,
                                                f_in.amountIn, prologueThrew, answers))
    /\ UNCHANGED <<mathVars, buildVars, syncVars, usdVars, pancakeVars, monVars, gapVars, scanVars, resolverVars, orchVars, routerVars>>

FetchVelocorePrice ==
    /\ f_pc = "velocore"
    /\ \E prologueThrew \in BOOLEAN, answer1 \in CallAnswers, answer2 \in CallAnswers :
         AdapterSettles(4, prologueThrew,
                        fetchVelocorePrice(f_cfg.velocorePool, f_in.tokenIn,
                                           f_in.tokenOut, f_in.amountIn,
                                           prologueThrew, answer1, answer2))
    /\ UNCHANGED <<mathVars, buildVars, syncVars, usdVars, pancakeVars, monVars, gapVars, scanVars, resolverVars, orchVars, routerVars>>

(* fetcher.ts 565 and builder.ts 83-118 *)
FetchBestQuoteReturn ==
    /\ f_pc = "collect"
    /\ f_pc' = "returned"
    /\ bestQuote' = fetchBestQuote(prices)
    /\ UNCHANGED <<f_cfg, f_in, prices, f_invoked, f_last>>
    /\ UNCHANGED <<mathVars, buildVars, syncVars, usdVars, pancakeVars, monVars, gapVars, scanVars, resolverVars, orchVars, routerVars>>

FetchNext ==
    \/ FetchBestQuoteCall
    \/ FetchMutePrice
    \/ FetchSyncSwapV1Price
    \/ FetchPancakeSwapV3Price
    \/ FetchVelocorePrice
    \/ FetchBestQuoteReturn

(* ----------------------------------------------------------------------- *)
(* utils/usdConverter: the price cache.  Decimals are scaled down (WETH 18 *)
(* to 3, the stables 6 to 1) and the reference amounts with them; time is  *)
(* Date.now() in milliseconds.                                             *)
(* ----------------------------------------------------------------------- *)
CACHE_TTL_MS == 5000
UNKNOWN_TOKEN == "0xUnknown"
WETH_DECIMALS == 3
USDC_DECIMALS == 1
REFERENCE_AMOUNT_WEI == Pow10(WETH_DECIMALS - 1)
REFERENCE_AMOUNT_USDC == 100 * Pow10(USDC_DECIMALS)

(* tokenMeta.get(address.toLowerCase()) *)
getTokenMeta(address) ==
    LET symbol == getTokenSymbol(address)
    IN  [ isUndefined |-> symbol = Undefined,
          symbol |-> symbol,
          decimals |-> IF symbol = "WETH" THEN WETH_DECIMALS ELSE USDC_DECIMALS ]

(* the keys of the cache: lower-cased addresses of the tokens converted *)
UsdTokens == {WETH_ADDRESS, USDC_ADDRESS, UNKNOWN_TOKEN}
CacheKeys == { toLowerCase(t) : t \in UsdTokens }
NoEntry == [present |-> FALSE, priceUsdc |-> 0, timestamp |-> 0]
EmptyCache == [k \in CacheKeys |-> NoEntry]

(* `cached && now - cached.timestamp < this.CACHE_TTL_MS` *)
cacheHit(entry, now) ==
    entry.present /\ now - entry.timestamp < CACHE_TTL_MS

(* lines 109-114 *)
referenceAmountOf(tokenMeta) ==
    IF tokenMeta.symbol = "WETH" THEN REFERENCE_AMOUNT_WEI ELSE REFERENCE_AMOUNT_USDC

(* what an awaited adapter call of the converter settles with *)
VenueResults(dex, tokenIn, amountIn) ==
    {Rejects} \cup
    {Resolves(Quote(dex, tokenIn, USDC_ADDRESS, amountIn, 0, FALSE,
                    "execution reverted", Undefined))} \cup
    {Resolves(Quote(dex, tokenIn, USDC_ADDRESS, amountIn, a, TRUE,
                    Undefined, Undefined)) : a \in 0 .. MaxOut}

(* one try block of lines 130-153 / 157-180: the bestQuote it leaves *)
referenceQuote_uncaught(r, best) ==
    IF r.threw THEN [threw |-> TRUE, bestQuote |-> best]
    ELSE IF r.quote.success /\ r.quote.amountOut > 0
         THEN [threw |-> FALSE, bestQuote |-> r.quote.amountOut]
         ELSE [threw |-> FALSE, bestQuote |-> best]

referenceQuote(r, best) ==
    IF r.threw THEN [threw |-> FALSE, bestQuote |-> best]
    ELSE IF r.quote.success /\ r.quote.amountOut > 0
         THEN [threw |-> FALSE, bestQuote |-> r.quote.amountOut]
         ELSE [threw |-> FALSE, bestQuote |-> best]

(* lines 189-190 *)
priceUsdcOf(best, tokenMeta) ==
    TruncDiv(best * Pow10(tokenMeta.decimals), referenceAmountOf(tokenMeta))

(* lines 193-196: the cache entry is stamped with the now of line 91 *)
cacheSet(c, key, priceUsdc, now) ==
    [c EXCEPT ![key] = [present |-> TRUE, priceUsdc |-> priceUsdc,
                        timestamp |-> now]]

UsdAmounts == {0, BuildAmountIn}
TimeStep == CACHE_TTL_MS \div 2

(* u_call: the convertToUsd call in progress or last returned; quotes are  *)
(* the reference quotes it has issued, results what they settled with,     *)
(* sinceStored the age, when it began, of the price last stored for its    *)
(* token (-1 when none is stored since construction or clearCache)         *)
NoCall ==
    [ pc |-> "idle", token |-> "", amount |-> 0, now |-> 0, bestQuote |-> 0,
      quotes |-> <<>>, results |-> <<>>, sinceStored |-> 0 - 1, ret |-> 0 ]

UsdIdle(pc) ==
    /\ cache = EmptyCache
    /\ clock = 0
    /\ u_call = [NoCall EXCEPT !.pc = pc]
    /\ u_stored = [k \in CacheKeys |-> 0 - 1]

(* convertToUsd returns usdValue *)
UsdReturns(call, priceUsdc) ==
    u_call' = [call EXCEPT
        !.pc = "returned",
        !.ret = convertToUsd(~getTokenMeta(call.token).isUndefined,
                             getTokenMeta(call.token).decimals,
                             priceUsdc, call.amount)]

(* lines 183-207 and 222-229: no venue gave a price, or the price is       *)
(* cached and returned                                                     *)
UsdSettles(call) ==
    LET key == toLowerCase(call.token)
        tokenMeta == getTokenMeta(call.token)
    IN  IF call.bestQuote = 0
        THEN /\ UsdReturns(call, 0)
             /\ UNCHANGED <<cache, u_stored>>
        ELSE LET priceUsdc == priceUsdcOf(call.bestQuote, tokenMeta)
             IN  /\ cache' = cacheSet(cache, key, priceUsdc, call.now)
                 /\ u_stored' = [u_stored EXCEPT ![key] = clock]
                 /\ UsdReturns(call, priceUsdc)

(* Date.now() moves on *)
UsdTimePasses ==
    /\ clock < MaxTime * TimeStep
    /\ clock' = clock + TimeStep
    /\ UNCHANGED <<cache, u_call, u_stored>>
    /\ UNCHANGED <<mathVars, buildVars, syncVars, fetchVars, pancakeVars, monVars, gapVars, scanVars, resolverVars, orchVars, routerVars>>

(* convertToUsd 214-221 and getTokenPriceUsdc 80-135, up to the first      *)
(* reference quote                                                         *)
ConvertToUsd ==
    /\ u_call.pc \in {"ready", "returned"}
    /\ \E token \in UsdTokens, amount \in UsdAmounts :
         LET key == toLowerCase(token)
             tokenMeta == getTokenMeta(token)
             call == [NoCall EXCEPT
                        !.token = token, !.amount = amount, !.now = clock,
                        !.sinceStored = IF u_stored[key] < 0 THEN 0 - 1
                                        ELSE clock - u_stored[key]]
         IN  IF tokenMeta.isUndefined
             THEN UsdReturns(call, 0)
             ELSE IF key = toLowerCase(USDC_ADDRESS)
             THEN UsdReturns(call, Pow10(USDC_DECIMALS))
             ELSE IF cacheHit(cache[key], clock)
             THEN UsdReturns(call, cache[key].priceUsdc)
             ELSE u_call' = [call EXCEPT !.pc = "pancake",
                                         !.quotes = <<"pancakeswap_v3">>]
    /\ UNCHANGED <<cache, clock, u_stored>>
    /\ UNCHANGED <<mathVars, buildVars, syncVars, fetchVars, pancakeVars, monVars, gapVars, scanVars, resolverVars, orchVars, routerVars>>

(* lines 131-158: the PancakeSwap reference quote has settled *)
UsdPancakeSettles ==
    /\ u_call.pc = "pancake"
    /\ \E r \in VenueResults("pancakeswap_v3", u_call.token,
                             referenceAmountOf(getTokenMeta(u_call.token))) :
         LET q == referenceQuote(r, u_call.bestQuote)
             call == [u_call EXCEPT !.bestQuote = q.bestQuote,
                                    !.results = Append(@, r)]
         IN  IF q.threw
             THEN /\ u_call' = [call EXCEPT !.pc = "threw"]
                  /\ UNCHANGED <<cache, u_stored>>
             ELSE IF q.bestQuote = 0
             THEN /\ u_call' = [call EXCEPT !.pc = "mute",
                                            !.quotes = Append(@, "mute")]
                  /\ UNCHANGED <<cache, u_stored>>
             ELSE UsdSettles(call)
    /\ UNCHANGED clock
    /\ UNCHANGED <<mathVars, buildVars, syncVars, fetchVars, pancakeVars, monVars, gapVars, scanVars, resolverVars, orchVars, routerVars>>

(* lines 158-207: the Mute reference quote has settled *)
UsdMuteSettles ==
    /\ u_call.pc = "mute"
    /\ \E r \in VenueResults("mute", u_call.token,
                             referenceAmountOf(getTokenMeta(u_call.token))) :
         LET q == referenceQuote(r, u_call.bestQuote)
             call == [u_call EXCEPT !.bestQuote = q.bestQuote,
                                    !.results = Append(@, r)]
         IN  IF q.threw
             THEN /\ u_call' = [call EXCEPT !.pc = "threw"]
                  /\ UNCHANGED <<cache, u_stored>>
             ELSE UsdSettles(call)
    /\ UNCHANGED clock
    /\ UNCHANGED <<mathVars, buildVars, syncVars, fetchVars, pancakeVars, monVars, gapVars, scanVars, resolverVars, orchVars, routerVars>>

(* clearCache *)
ClearCache ==
    /\ cache' = EmptyCache
    /\ u_stored' = [k \in CacheKeys |-> 0 - 1]
    /\ UNCHANGED <<clock, u_call>>
    /\ UNCHANGED <<mathVars, buildVars, syncVars, fetchVars, pancakeVars, monVars, gapVars, scanVars, resolverVars, orchVars, routerVars>>

UsdNext ==
    \/ UsdTimePasses
    \/ ConvertToUsd
    \/ UsdPancakeSettles
    \/ UsdMuteSettles
    \/ ClearCache

(* ----------------------------------------------------------------------- *)
(* fetchPancakeSwapV3Price in time: the path requests, their timers and    *)
(* the batch loop of lines 373-431                                         *)
(* ----------------------------------------------------------------------- *)
PER_PATH_TIMEOUT_MS == 5000
CONCURRENCY == 3

(* what the timer of line 319 rejects the race with *)
TimeoutError == [isError |-> TRUE, message |-> "timeout"]

(* answers of the quoter to one path request *)
QuoterAnswers ==
    {[threw |-> TRUE, error |-> [isError |-> TRUE, message |-> "execution reverted"],
      amountOut |-> 0]} \cup
    {[threw |-> FALSE, error |-> NotAnError, amountOut |-> a] : a \in 0 .. MaxOut}

(* setTimeout(..., PER_PATH_TIMEOUT_MS) armed at startedAt has fired *)
timerDue_never(startedAt, now) == FALSE

timerDue(startedAt, now) == now - startedAt >= PER_PATH_TIMEOUT_MS

NoAttempt ==
    [ pathType |-> "", feeTiers |-> <<>>, amountOut |-> 0, success |-> FALSE,
      error |-> Undefined ]

(* a path promise: unstarted, pending or settled with its PathAttempt;     *)
(* inFlight: its request has been sent and the quoter has not answered     *)
UnstartedPath == [status |-> "unstarted", inFlight |-> FALSE, attempt |-> NoAttempt]
PendingPath == [status |-> "pending", inFlight |-> TRUE, attempt |-> NoAttempt]

PancakeInputs ==
    [ tokenIn : {WETH_ADDRESS}, tokenOut : {USDC_ADDRESS}, amountIn : {SyncAmountIn} ]
    \cup
    [ tokenIn : {USDC_ADDRESS}, tokenOut : {USDT_ADDRESS}, amountIn : {SyncAmountIn} ]

PancakeIdle(pc) ==
    /\ p_pc = pc
    /\ p_in = [tokenIn |-> "", tokenOut |-> "", amountIn |-> 0]
    /\ p_paths = <<>>
    /\ p_attempts = <<>>
    /\ p_i = 0
    /\ p_clock = 0
    /\ p_startedAt = 0
    /\ p_quote = Rejects

(* the paths of the batch pathPromises.slice(i, i + CONCURRENCY) *)
batchOf(i, n) == { k \in 1 .. n : k > i /\ k <= i + CONCURRENCY }

(* lines 286-423: every tryPathWithTimeout(...) call of the two loops runs *)
(* up to its first await, which sends the request and arms the timer       *)
PancakeCall ==
    /\ p_pc = "ready"
    /\ p_paths' = [k \in 1 .. Len(p_paths) |-> PendingPath]
    /\ p_startedAt' = p_clock
    /\ p_attempts' = <<>>
    /\ p_i' = 0
    /\ p_pc' = "awaiting"
    /\ UNCHANGED <<p_in, p_clock, p_quote>>
    /\ UNCHANGED <<mathVars, buildVars, syncVars, fetchVars, usdVars, monVars, gapVars, scanVars, resolverVars, orchVars, routerVars>>

(* lines 322-366: the quoter answers a pending path *)
PathAnswers ==
    /\ p_pc = "awaiting"
    /\ \E k \in 1 .. Len(p_paths), answer \in QuoterAnswers :
         /\ p_paths[k].status = "pending"
         /\ p_paths' = [p_paths EXCEPT ![k] =
               [ status |-> "settled", inFlight |-> FALSE,
                 attempt |-> tryPathWithTimeout(
                                 pancakePaths(p_in.tokenIn, p_in.tokenOut)[k], answer) ]]
    /\ UNCHANGED <<p_pc, p_in, p_attempts, p_i, p_clock, p_startedAt, p_quote>>
    /\ UNCHANGED <<mathVars, buildVars, syncVars, fetchVars, usdVars, monVars, gapVars, scanVars, resolverVars, orchVars, routerVars>>

(* lines 318-322, 340-366: the timer of a pending path fires first; its    *)
(* request stays unanswered                                                *)
PathTimesOut ==
    /\ p_pc = "awaiting"
    /\ \E k \in 1 .. Len(p_paths) :
         /\ p_paths[k].status = "pending"
         /\ timerDue(p_startedAt, p_clock)
         /\ p_paths' = [p_paths EXCEPT ![k] =
               [ status |-> "settled", inFlight |-> TRUE,
                 attempt |-> tryPathWithTimeout(
                                 pancakePaths(p_in.tokenIn, p_in.tokenOut)[k],
                                 [threw |-> TRUE, error |-> TimeoutError,
                                  amountOut |-> 0]) ]]
    /\ UNCHANGED <<p_pc, p_in, p_attempts, p_i, p_clock, p_startedAt, p_quote>>
    /\ UNCHANGED <<mathVars, buildVars, syncVars, fetchVars, usdVars, monVars, gapVars, scanVars, resolverVars, orchVars, routerVars>>

(* time passes during the call while the awaited batch has a pending path: *)
(* a timer that is due fires, and a continuation whose promises have all   *)
(* settled resumes, before more time passes                                *)
PancakeTimePasses ==
    /\ p_pc = "awaiting"
    /\ p_clock < MaxTime * TimeStep
    /\ \E k \in batchOf(p_i, Len(p_paths)) : p_paths[k].status = "pending"
    /\ \A k \in 1 .. Len(p_paths) :
         p_paths[k].status = "pending" => ~timerDue(p_startedAt, p_clock)
    /\ p_clock' = p_clock + TimeStep
    /\ UNCHANGED <<p_pc, p_in, p_paths, p_attempts, p_i, p_startedAt, p_quote>>
    /\ UNCHANGED <<mathVars, buildVars, syncVars, fetchVars, usdVars, monVars, gapVars, scanVars, resolverVars, orchVars, routerVars>>

(* lines 427-431: `await Promise.all(batch)` resumes and the results are   *)
(* pushed; after the last batch lines 433-517 select and return            *)
PancakeBatchCollected ==
    /\ p_pc = "awaiting"
    /\ LET n == Len(p_paths)
           batch == batchOf(p_i, n)
           collected == p_attempts \o
                        [ k \in 1 .. Cardinality(batch) |-> p_paths[p_i + k].attempt ]
       IN  /\ \A k \in batch : p_paths[k].status = "settled"
           /\ p_attempts' = collected
           /\ p_i' = p_i + CONCURRENCY
           /\ IF p_i + CONCURRENCY < n
              THEN UNCHANGED <<p_pc, p_quote>>
              ELSE /\ p_pc' = "returned"
                   /\ p_quote' = selectPancakeQuote(p_in.tokenIn, p_in.tokenOut,
                                                    p_in.amountIn, collected)
    /\ UNCHANGED <<p_in, p_paths, p_clock, p_startedAt>>
    /\ UNCHANGED <<mathVars, buildVars, syncVars, fetchVars, usdVars, monVars, gapVars, scanVars, resolverVars, orchVars, routerVars>>

PancakeNext ==
    \/ PancakeCall
    \/ PathAnswers
    \/ PathTimesOut
    \/ PancakeTimePasses
    \/ PancakeBatchCollected

(* ----------------------------------------------------------------------- *)
(* monitoring/priceGapMonitor: the loop of PriceGapMonitor.start           *)
(* ----------------------------------------------------------------------- *)
(* Time is counted down in steps of MonitorTimeStep: g_remaining is        *)
(* endTime - Date.now() (0 once it is reached), g_timer what is left of    *)
(* the pending sleep.  g_running holds the scanPriceGaps calls that have   *)
(* begun and not settled, each with the pair it is at; g_settled is the    *)
(* latest call that settled.                                               *)
SCAN_SLEEP_MS == 60000
ERROR_SLEEP_MS == 10000
MonitorTimeStep == 10000
NumPairs == 2
ScanErrorLogged == "Error during price gap scan"

(* `durationHours * 60 * 60 * 1000` of a start call *)
MonitorDurations == { k * MonitorTimeStep : k \in 1 .. MaxDuration }

NoScan == [id |-> 0, failed |-> FALSE]

MonIdle(pc) ==
    /\ g_pc = pc
    /\ isRunning = FALSE
    /\ scanCount = 0
    /\ g_remaining = 0
    /\ g_timer = 0
    /\ g_running = {}
    /\ g_settled = NoScan
    /\ g_event = ""
    /\ g_swept = 0

(* the loop condition without the test of isRunning *)
loopContinues_ignoresStop(running, remaining) == remaining > 0

(* the loop condition, line 112 *)
loopContinues(running, remaining) == running /\ remaining > 0

(* `await this.scanPriceGaps()` resumes with a scan that never settles *)
scanSettled_unawaited(settled, count) == TRUE

(* `await this.scanPriceGaps()` resumes once the scan of this tick settled *)
scanSettled(settled, count) == settled.id = count

(* the catch block of the loop with the error thrown on *)
onTickError_rethrows == [pc |-> "completed", timer |-> 0, event |-> ScanErrorLogged]

(* lines 128-131: the catch block of the loop *)
onTickError == [pc |-> "backoff", timer |-> ERROR_SLEEP_MS, event |-> ScanErrorLogged]

(* lines 104-110 *)
MonStart ==
    /\ g_pc \in {"idle", "completed"}
    /\ \E duration \in MonitorDurations : g_remaining' = duration
    /\ isRunning' = TRUE
    /\ scanCount' = 0
    /\ g_pc' = "test"
    /\ g_timer' = 0
    /\ g_event' = "started"
    /\ g_settled' = NoScan
    /\ g_swept' = 0
    /\ UNCHANGED g_running
    /\ UNCHANGED <<mathVars, buildVars, syncVars, fetchVars, usdVars, pancakeVars, gapVars, scanVars, resolverVars, orchVars, routerVars>>

(* lines 140-143 *)
MonStop ==
    /\ g_pc # "idle"
    /\ isRunning
    /\ isRunning' = FALSE
    /\ UNCHANGED <<g_pc, scanCount, g_remaining, g_timer, g_running, g_settled, g_event,
                   g_swept>>
    /\ UNCHANGED <<mathVars, buildVars, syncVars, fetchVars, usdVars, pancakeVars, gapVars, scanVars, resolverVars, orchVars, routerVars>>

(* lines 112-115 and 134: the loop condition; a tick begins its scan *)
MonLoopTest ==
    /\ g_pc = "test"
    /\ IF loopContinues(isRunning, g_remaining)
       THEN /\ scanCount' = scanCount + 1
            /\ g_running' = g_running \cup {[id |-> scanCount + 1, pair |-> 1]}
            /\ g_pc' = "awaitScan"
       ELSE /\ g_pc' = "completed"
            /\ UNCHANGED <<scanCount, g_running>>
    /\ UNCHANGED <<isRunning, g_remaining, g_timer, g_settled, g_event, g_swept>>
    /\ UNCHANGED <<mathVars, buildVars, syncVars, fetchVars, usdVars, pancakeVars, gapVars, scanVars, resolverVars, orchVars, routerVars>>

(* lines 152-178: one pair of a scan: skipped (token info not found),      *)
(* scanned, failed inside the try block (logged there), or failed outside  *)
(* it, which rejects the scan                                              *)
MonScanPair ==
    /\ \E s \in g_running, outcome \in {"skipped", "scanned", "caught", "threw"} :
         IF outcome = "threw"
         THEN /\ g_running' = g_running \ {s}
              /\ g_settled' = [id |-> s.id, failed |-> TRUE]
         ELSE IF s.pair = NumPairs
         THEN /\ g_running' = g_running \ {s}
              /\ g_settled' = [id |-> s.id, failed |-> FALSE]
         ELSE /\ g_running' = (g_running \ {s}) \cup {[s EXCEPT !.pair = s.pair + 1]}
              /\ UNCHANGED g_settled
    /\ UNCHANGED <<g_pc, isRunning, scanCount, g_remaining, g_timer, g_event, g_swept>>
    /\ UNCHANGED <<mathVars, buildVars, syncVars, fetchVars, usdVars, pancakeVars, gapVars, scanVars, resolverVars, orchVars, routerVars>>

(* lines 115-131: the tick resumes after its scan: the scan failed and the *)
(* catch block runs; or updateClosedOpportunities is called (g_swept: the  *)
(* tick it was last called in) and it or logHourlyStats throws, and the    *)
(* catch block runs; or the tick goes to sleep                             *)
MonTickResumes ==
    /\ g_pc = "awaitScan"
    /\ scanSettled(g_settled, scanCount)
    /\ g_swept' = IF g_settled.failed THEN g_swept ELSE scanCount
    /\ \E tailThrew \in BOOLEAN :
         IF g_settled.failed \/ tailThrew
         THEN /\ g_pc' = onTickError.pc
              /\ g_timer' = onTickError.timer
              /\ g_event' = onTickError.event
         ELSE /\ g_pc' = "sleep"
              /\ g_timer' = SCAN_SLEEP_MS
              /\ UNCHANGED g_event
    /\ UNCHANGED <<isRunning, scanCount, g_remaining, g_running, g_settled>>
    /\ UNCHANGED <<mathVars, buildVars, syncVars, fetchVars, usdVars, pancakeVars, gapVars, scanVars, resolverVars, orchVars, routerVars>>

(* lines 467-469: the timer of the pending sleep fires *)
MonWake ==
    /\ g_pc \in {"sleep", "backoff"}
    /\ g_timer = 0
    /\ g_pc' = "test"
    /\ UNCHANGED <<isRunning, scanCount, g_remaining, g_timer, g_running, g_settled, g_event,
                   g_swept>>
    /\ UNCHANGED <<mathVars, buildVars, syncVars, fetchVars, usdVars, pancakeVars, gapVars, scanVars, resolverVars, orchVars, routerVars>>

(* Date.now() advances *)
MonTimePasses ==
    /\ g_pc \notin {"idle", "completed"}
    /\ g_timer > 0 \/ g_remaining > 0
    /\ g_timer' = IF g_timer > 0 THEN g_timer - MonitorTimeStep ELSE 0
    /\ g_remaining' = IF g_remaining > 0 THEN g_remaining - MonitorTimeStep ELSE 0
    /\ UNCHANGED <<g_pc, isRunning, scanCount, g_running, g_settled, g_event, g_swept>>
    /\ UNCHANGED <<mathVars, buildVars, syncVars, fetchVars, usdVars, pancakeVars, gapVars, scanVars, resolverVars, orchVars, routerVars>>

MonitorNext ==
    \/ MonStart
    \/ MonStop
    \/ MonLoopTest
    \/ MonScanPair
    \/ MonTickResumes
    \/ MonWake
    \/ MonTimePasses

(* ----------------------------------------------------------------------- *)
(* monitoring/priceGapMonitor: the price_gaps table                        *)
(* ----------------------------------------------------------------------- *)
(* A row keeps timestamp, status, closedAt and the decay time; the decay   *)
(* time is kept in milliseconds (decayTimeSeconds is that over 1000).      *)
(* NullTime stands for SQL NULL.  d_clock is Date.now().                   *)
FRESHNESS_MS == 5 * 60 * 1000
GapTimeStep == FRESHNESS_MS \div 2
NullTime == 0 - 1
ClockReadAdvance == {0, 1}

(* lines 251-260 and 281-299: INSERT INTO price_gaps *)
(* line 190: minSpreadPercent = 0.1, in hundredths of a percent *)
minSpreadPercent == 10

(* lines 220, 250: the gap is recorded when its spread is above the        *)
(* minimum and the calculator's net profit estimate is positive            *)
isRecorded(spreadPercent, netProfitUSD) ==
    spreadPercent > minSpreadPercent /\ netProfitUSD > 0

(* the pair and venues of a gap, the spreads seen (hundredths of a         *)
(* percent) and the net profit estimates of calculateProfit (never < 0)    *)
GapVenues == {"WETH/USDC mute>syncswap_v1"}
GapSeen(spreadPercent, netProfitUSD) == [spreadPercent |-> spreadPercent, netProfitUSD |-> netProfitUSD]
GapsSeen == {GapSeen(minSpreadPercent + 1, 1), GapSeen(minSpreadPercent, 1), GapSeen(minSpreadPercent + 1, 0)}

(* a gap merged into the open record of its pair and venues, if any *)
recordOpportunity_merged(table, timestamp, venues, status) ==
    IF \E i \in 1 .. Len(table) : table[i].venues = venues /\ table[i].status = "open"
    THEN [ i \in 1 .. Len(table) |->
             IF table[i].venues = venues /\ table[i].status = "open"
             THEN [table[i] EXCEPT !.timestamp = timestamp]
             ELSE table[i] ]
    ELSE Append(table, [ timestamp |-> timestamp, venues |-> venues, status |-> status,
                         closedAt |-> NullTime, decayMs |-> NullTime ])

(* lines 281-299: the INSERT *)
recordOpportunity(table, timestamp, venues, status) ==
    Append(table, [ timestamp |-> timestamp, venues |-> venues, status |-> status,
                    closedAt |-> NullTime, decayMs |-> NullTime ])

(* the UPDATE with `WHERE timestamp < ?` alone *)
updateClosedOpportunities_anyStatus(table, fiveMinutesAgo, closedAtNow, decayNow) ==
    [ i \in 1 .. Len(table) |->
        IF table[i].timestamp < fiveMinutesAgo
        THEN [ table[i] EXCEPT !.status = "closed",
                               !.closedAt = closedAtNow,
                               !.decayMs = decayNow - table[i].timestamp ]
        ELSE table[i] ]

(* lines 308-316: the UPDATE statement with its three parameters *)
updateClosedOpportunities(table, fiveMinutesAgo, closedAtNow, decayNow) ==
    [ i \in 1 .. Len(table) |->
        IF table[i].status = "open" /\ table[i].timestamp < fiveMinutesAgo
        THEN [ table[i] EXCEPT !.status = "closed",
                               !.closedAt = closedAtNow,
                               !.decayMs = decayNow - table[i].timestamp ]
        ELSE table[i] ]

NoGapOp == [op |-> "none", fiveMinutesAgo |-> 0, closedAtNow |-> 0, decayNow |-> 0, venues |-> "", spreadPercent |-> 0, netProfitUSD |-> 0]

GapIdle(pc) ==
    /\ price_gaps = <<>>
    /\ d_clock = 0
    /\ d_last = [NoGapOp EXCEPT !.op = pc]

(* lines 191-275, one pair of quotes of findAndRecordOpportunities: the    *)
(* gap seen is recorded with status "open" and Date.now(), or skipped      *)
GapRecord ==
    /\ \E venues \in GapVenues, seen \in GapsSeen :
         IF isRecorded(seen.spreadPercent, seen.netProfitUSD)
         THEN /\ Len(price_gaps) < MaxRecords
              /\ price_gaps' = recordOpportunity(price_gaps, d_clock, venues, "open")
              /\ d_last' = [NoGapOp EXCEPT !.op = "record", !.venues = venues, !.spreadPercent = seen.spreadPercent, !.netProfitUSD = seen.netProfitUSD]
         ELSE /\ price_gaps' = price_gaps
              /\ d_last' = [NoGapOp EXCEPT !.op = "skip", !.venues = venues, !.spreadPercent = seen.spreadPercent, !.netProfitUSD = seen.netProfitUSD]
    /\ UNCHANGED d_clock
    /\ UNCHANGED <<mathVars, buildVars, syncVars, fetchVars, usdVars, pancakeVars, monVars, scanVars, resolverVars, orchVars, routerVars>>

(* lines 304-321: Date.now() is read three times, at line 305 and twice at *)
(* line 316; the clock may advance between the reads                       *)
GapSweep ==
    /\ \E a \in ClockReadAdvance, b \in ClockReadAdvance :
         LET fiveMinutesAgo == d_clock - FRESHNESS_MS
             closedAtNow == d_clock + a
             decayNow == closedAtNow + b
         IN  /\ decayNow % GapTimeStep <= MaxAdvance
             /\ price_gaps' = updateClosedOpportunities(price_gaps, fiveMinutesAgo,
                                                        closedAtNow, decayNow)
             /\ d_clock' = decayNow
             /\ d_last' = [ NoGapOp EXCEPT !.op = "sweep", !.fiveMinutesAgo = fiveMinutesAgo,
                                           !.closedAtNow = closedAtNow, !.decayNow = decayNow ]
    /\ UNCHANGED <<mathVars, buildVars, syncVars, fetchVars, usdVars, pancakeVars, monVars, scanVars, resolverVars, orchVars, routerVars>>

(* time passes to the next multiple of GapTimeStep *)
GapTimePasses ==
    /\ d_clock < MaxGapTime * GapTimeStep
    /\ d_clock' = ((d_clock \div GapTimeStep) + 1) * GapTimeStep
    /\ UNCHANGED <<price_gaps, d_last>>
    /\ UNCHANGED <<mathVars, buildVars, syncVars, fetchVars, usdVars, pancakeVars, monVars, scanVars, resolverVars, orchVars, routerVars>>

GapNext ==
    \/ GapRecord
    \/ GapSweep
    \/ GapTimePasses

(* ----------------------------------------------------------------------- *)
(* opportunities/builder: scanOpportunities                                *)
(* ----------------------------------------------------------------------- *)
(* An opportunity is kept here with the pair it was built for, its size,   *)
(* the round-trip output and grossSpreadBps; its other fields are those of *)
(* buildOpportunity above.  sc_built lists the opportunities built.        *)
NumScanPairs == 3
ScanFinalAmounts ==
    { BuildAmountIn + k : k \in {0 - 10, 0 - 5, 0, 5, 10} }

(* options.minSpreadBps: absent, or a bigint *)
MinSpreadOptions ==
    {[given |-> FALSE, value |-> 0]} \cup
    {[given |-> TRUE, value |-> v] : v \in {0 - 50, 0, 50}}

(* `options.minSpreadBps || 0n` with every negative filter taken as 0 *)
minSpreadOf_nonNegative(option) ==
    IF ~option.given \/ option.value <= 0 THEN 0 ELSE option.value

(* line 323: `options.minSpreadBps || 0n` *)
minSpreadOf(option) ==
    IF ~option.given \/ option.value = 0 THEN 0 ELSE option.value

(* line 324 *)
meetsMinSpread(grossSpreadBps, minSpread) == grossSpreadBps >= minSpread

(* lines 314-320: the opportunity of a pair whose round trip returned finalA *)
ScannedOpportunity(i, size, finalA) ==
    [ pair |-> i, amountIn |-> size, finalA |-> finalA,
      grossSpreadBps |-> calculateGrossSpreadBps(size, finalA) ]

(* lines 251-272: the size of a pair from sizes[tokenA], sizes[tokenB] and *)
(* the configured flashloanSize of the two symbols; 0 stands for a value   *)
(* that is absent (`!size`)                                                *)
selectSize(sizeA, sizeB, defaultA, defaultB) ==
    IF sizeA # 0 THEN [size |-> sizeA, sizeSource |-> "tokenA"]
    ELSE IF sizeB # 0 THEN [size |-> sizeB, sizeSource |-> "tokenB (fallback)"]
    ELSE IF defaultA # 0 THEN [size |-> defaultA, sizeSource |-> "config default for tokenA"]
    ELSE IF defaultB # 0 THEN [size |-> defaultB, sizeSource |-> "config default for tokenB"]
    ELSE [size |-> 0, sizeSource |-> "tokenB (fallback)"]

(* the return leg asking for the size of the pair again *)
returnLegAmountIn_size(size, quoteAtoB) == size

(* line 307: fetchBestQuote(pair.tokenB, pair.tokenA, quoteAtoB.amountOut) *)
returnLegAmountIn(size, quoteAtoB) == quoteAtoB.amountOut

(* the sizes defined for the two tokens of a pair, the answers of          *)
(* fetchBestQuote (null, or a quote with its amountOut)                    *)
SizeOfTokenA == BuildAmountIn
SizeOfTokenB == 2 * BuildAmountIn
SizeInputs(sizeA, sizeB, defaultA, defaultB) == [sizeA |-> sizeA, sizeB |-> sizeB, defaultA |-> defaultA, defaultB |-> defaultB]
ScanSizeInputs == { SizeInputs(SizeOfTokenA, 0, 0, 0), SizeInputs(SizeOfTokenA, SizeOfTokenB, SizeOfTokenA, SizeOfTokenB), SizeInputs(0, SizeOfTokenB, 0, 0), SizeInputs(0, 0, SizeOfTokenA, SizeOfTokenB), SizeInputs(0, 0, 0, SizeOfTokenB), SizeInputs(0, 0, 0, 0) }
ForwardQuotes == {[isNull |-> TRUE, amountOut |-> 0]} \cup {[isNull |-> FALSE, amountOut |-> o] : o \in {7, 9}}
ReturnQuotes == {[isNull |-> TRUE, amountOut |-> 0]} \cup {[isNull |-> FALSE, amountOut |-> o] : o \in ScanFinalAmounts}

(* sc_last: the latest iteration of the loop: the sizes it found, the size *)
(* it chose, the fetchBestQuote calls it made and how it ended             *)
NoIteration ==
    [ pair |-> 0, sizes |-> [sizeA |-> 0, sizeB |-> 0, defaultA |-> 0, defaultB |-> 0],
      size |-> 0, sizeSource |-> "", requests |-> <<>>,
      quoteAtoB |-> [isNull |-> TRUE, amountOut |-> 0], outcome |-> "" ]

ScanIteration(i, sizes, chosen, requests, quoteAtoB, outcome) ==
    [ pair |-> i, sizes |-> sizes, size |-> chosen.size, sizeSource |-> chosen.sizeSource,
      requests |-> requests, quoteAtoB |-> quoteAtoB, outcome |-> outcome ]

QuoteRequest(tokenIn, tokenOut, amountIn) ==
    [ tokenIn |-> tokenIn, tokenOut |-> tokenOut, amountIn |-> amountIn ]

ScanIdle(pc) ==
    /\ sc_pc = pc
    /\ sc_option = [given |-> FALSE, value |-> 0]
    /\ sc_i = 0
    /\ opportunities = <<>>
    /\ sc_built = <<>>
    /\ sc_last = NoIteration

(* lines 220-248 *)
ScanOpportunitiesCall ==
    /\ sc_pc \in {"ready", "returned", "rejected"}
    /\ \E option \in MinSpreadOptions : sc_option' = option
    /\ sc_i' = 1
    /\ opportunities' = <<>>
    /\ sc_built' = <<>>
    /\ sc_last' = NoIteration
    /\ sc_pc' = "scanning"
    /\ UNCHANGED <<mathVars, buildVars, syncVars, fetchVars, usdVars, pancakeVars, monVars, gapVars, resolverVars, orchVars, routerVars>>

(* lines 250-339: one pair: its size is chosen (the pair is skipped when   *)
(* none is found), the two legs are quoted (the pair is skipped when       *)
(* fetchBestQuote answers null), the opportunity is built (buildOpportunity *)
(* may reject) and kept or dropped by the filter                           *)
ScanPair ==
    /\ sc_pc = "scanning"
    /\ sc_i <= NumScanPairs
    /\ \E sizes \in ScanSizeInputs, quoteAtoB \in ForwardQuotes, quoteBtoA \in ReturnQuotes, buildThrew \in BOOLEAN :
         LET chosen == selectSize(sizes.sizeA, sizes.sizeB, sizes.defaultA, sizes.defaultB)
             forward == QuoteRequest("tokenA", "tokenB", chosen.size)
             back == QuoteRequest("tokenB", "tokenA", returnLegAmountIn(chosen.size, quoteAtoB))
         IN  IF chosen.size = 0
             THEN /\ sc_last' = ScanIteration(sc_i, sizes, chosen, <<>>, NoIteration.quoteAtoB, "no size")
                  /\ sc_i' = sc_i + 1
                  /\ UNCHANGED <<sc_pc, opportunities, sc_built>>
             ELSE IF quoteAtoB.isNull
             THEN /\ sc_last' = ScanIteration(sc_i, sizes, chosen, <<forward>>, quoteAtoB, "no quote A->B")
                  /\ sc_i' = sc_i + 1
                  /\ UNCHANGED <<sc_pc, opportunities, sc_built>>
             ELSE IF quoteBtoA.isNull
             THEN /\ sc_last' = ScanIteration(sc_i, sizes, chosen, <<forward, back>>, quoteAtoB, "no quote B->A")
                  /\ sc_i' = sc_i + 1
                  /\ UNCHANGED <<sc_pc, opportunities, sc_built>>
             ELSE IF buildThrew
             THEN /\ sc_last' = ScanIteration(sc_i, sizes, chosen, <<forward, back>>, quoteAtoB, "threw")
                  /\ sc_pc' = "rejected"
                  /\ UNCHANGED <<sc_i, opportunities, sc_built>>
             ELSE LET opportunity == ScannedOpportunity(sc_i, chosen.size, quoteBtoA.amountOut)
                      minSpread == minSpreadOf(sc_option)
                  IN  /\ sc_last' = ScanIteration(sc_i, sizes, chosen, <<forward, back>>, quoteAtoB, "built")
                      /\ sc_built' = Append(sc_built, opportunity)
                      /\ opportunities' =
                            IF meetsMinSpread(opportunity.grossSpreadBps, minSpread)
                            THEN Append(opportunities, opportunity)
                            ELSE opportunities
                      /\ sc_i' = sc_i + 1
                      /\ UNCHANGED sc_pc
    /\ UNCHANGED sc_option
    /\ UNCHANGED <<mathVars, buildVars, syncVars, fetchVars, usdVars, pancakeVars, monVars, gapVars, resolverVars, orchVars, routerVars>>

(* lines 341-346: return opportunities *)
ScanOpportunitiesReturn ==
    /\ sc_pc = "scanning"
    /\ sc_i > NumScanPairs
    /\ sc_pc' = "returned"
    /\ UNCHANGED <<sc_option, sc_i, opportunities, sc_built, sc_last>>
    /\ UNCHANGED <<mathVars, buildVars, syncVars, fetchVars, usdVars, pancakeVars, monVars, gapVars, resolverVars, orchVars, routerVars>>

ScanNext ==
    \/ ScanOpportunitiesCall
    \/ ScanPair
    \/ ScanOpportunitiesReturn

(* ----------------------------------------------------------------------- *)
(* prices/tokenResolver: DEXTokenResolver                                  *)
(* ----------------------------------------------------------------------- *)
DAI_ADDRESS == "0xDAI"
usdcNative == toLowerCase(USDC_ADDRESS)
(* the bridged address kept as the configuration spells it *)
usdcBridged_asConfigured == USDC_E_ADDRESS

(* lines 37-41 *)
usdcBridged == toLowerCase(USDC_E_ADDRESS)
AliasingPolicies == {"auto", "force-native", "force-bridged", "off"}

(* the spellings of the addresses handed to the resolver; DAI is not in    *)
(* the registry                                                            *)
ResolverTokens ==
    { USDC_ADDRESS, "0xusdc", "0XUSDC", USDC_E_ADDRESS, "0xusdc.e", "0XUSDC.E",
      USDT_ADDRESS, "0xusdt", WETH_ADDRESS, "0xweth", DAI_ADDRESS, "0xdai" }

TokenResolution(tokenIn, tokenOut, resolvedFromIn, resolvedFromOut) ==
    [ tokenIn |-> tokenIn, tokenOut |-> tokenOut,
      resolvedFrom |-> [tokenIn |-> resolvedFromIn, tokenOut |-> resolvedFromOut] ]

(* resolve handing back the normalised spelling of every side *)
resolve_normalised(dex, tokenIn, tokenOut, policy) ==
    LET tokenInLower == toLowerCase(tokenIn)
        tokenOutLower == toLowerCase(tokenOut)
    IN  IF policy = "force-native"
        THEN TokenResolution(
                IF tokenInLower = usdcBridged THEN usdcNative ELSE tokenInLower,
                IF tokenOutLower = usdcBridged THEN usdcNative ELSE tokenOutLower,
                IF tokenInLower = usdcBridged THEN "native" ELSE "original",
                IF tokenOutLower = usdcBridged THEN "native" ELSE "original")
        ELSE IF policy = "force-bridged"
        THEN TokenResolution(
                IF tokenInLower = usdcNative THEN usdcBridged ELSE tokenInLower,
                IF tokenOutLower = usdcNative THEN usdcBridged ELSE tokenOutLower,
                IF tokenInLower = usdcNative THEN "bridged" ELSE "original",
                IF tokenOutLower = usdcNative THEN "bridged" ELSE "original")
        ELSE TokenResolution(tokenInLower, tokenOutLower, "original", "original")

(* lines 48-102 *)
resolve(dex, tokenIn, tokenOut, policy) ==
    IF policy = "off"
    THEN TokenResolution(tokenIn, tokenOut, "original", "original")
    ELSE LET tokenInLower == toLowerCase(tokenIn)
             tokenOutLower == toLowerCase(tokenOut)
         IN  IF policy = "force-native"
             THEN TokenResolution(
                     IF tokenInLower = usdcBridged THEN usdcNative ELSE tokenIn,
                     IF tokenOutLower = usdcBridged THEN usdcNative ELSE tokenOut,
                     IF tokenInLower = usdcBridged THEN "native" ELSE "original",
                     IF tokenOutLower = usdcBridged THEN "native" ELSE "original")
             ELSE IF policy = "force-bridged"
             THEN TokenResolution(
                     IF tokenInLower = usdcNative THEN usdcBridged ELSE tokenIn,
                     IF tokenOutLower = usdcNative THEN usdcBridged ELSE tokenOut,
                     IF tokenInLower = usdcNative THEN "bridged" ELSE "original",
                     IF tokenOutLower = usdcNative THEN "bridged" ELSE "original")
             ELSE TokenResolution(tokenIn, tokenOut, "original", "original")

(* lines 108-118 *)
getAlternative(token) ==
    LET tokenLower == toLowerCase(token)
    IN  IF tokenLower = usdcNative THEN usdcBridged
        ELSE IF tokenLower = usdcBridged THEN usdcNative
        ELSE Null

(* isUSDC comparing the address as it is spelled *)
isUSDC_caseSensitive(token) == token = usdcNative \/ token = usdcBridged

(* lines 123-126 *)
isUSDC(token) ==
    LET tokenLower == toLowerCase(token)
    IN  tokenLower = usdcNative \/ tokenLower = usdcBridged

(* lines 131-148: DEXTokenResolver.getTokenSymbol; the registry holds      *)
(* WETH, USDC, USDC.e and USDT                                             *)
resolverTokenSymbol(token) ==
    LET tokenLower == toLowerCase(token)
    IN  IF tokenLower = usdcNative THEN "USDC"
        ELSE IF tokenLower = usdcBridged THEN "USDC.e"
        ELSE IF toLowerCase(WETH_ADDRESS) = tokenLower THEN "WETH"
        ELSE IF toLowerCase(USDT_ADDRESS) = tokenLower THEN "USDT"
        ELSE token

(* lines 153-155 *)
pairInvolvesUSDC(tokenIn, tokenOut) == isUSDC(tokenIn) \/ isUSDC(tokenOut)

(* a call of the resolver and what it returned *)
ResolverCall(fn, tokenIn, tokenOut, policy, ret) ==
    [ fn |-> fn, tokenIn |-> tokenIn, tokenOut |-> tokenOut, policy |-> policy,
      ret |-> ret ]

NoResolution == TokenResolution("", "", "", "")
ResolverReturn(resolution, text, flag) ==
    [ resolution |-> resolution, text |-> text, flag |-> flag ]

ResolverIdle(pc) ==
    r_call = ResolverCall(pc, "", "", "", ResolverReturn(NoResolution, "", FALSE))

CallResolve ==
    /\ \E tokenIn \in ResolverTokens, tokenOut \in ResolverTokens,
          policy \in AliasingPolicies :
         r_call' = ResolverCall("resolve", tokenIn, tokenOut, policy,
                      ResolverReturn(resolve("mute", tokenIn, tokenOut, policy),
                                     "", FALSE))
    /\ UNCHANGED <<mathVars, buildVars, syncVars, fetchVars, usdVars, pancakeVars, monVars, gapVars, scanVars, orchVars, routerVars>>

CallGetAlternative ==
    /\ \E token \in ResolverTokens :
         r_call' = ResolverCall("getAlternative", token, "", "",
                      ResolverReturn(NoResolution, getAlternative(token), FALSE))
    /\ UNCHANGED <<mathVars, buildVars, syncVars, fetchVars, usdVars, pancakeVars, monVars, gapVars, scanVars, orchVars, routerVars>>

CallIsUSDC ==
    /\ \E token \in ResolverTokens :
         r_call' = ResolverCall("isUSDC", token, "", "",
                      ResolverReturn(NoResolution, "", isUSDC(token)))
    /\ UNCHANGED <<mathVars, buildVars, syncVars, fetchVars, usdVars, pancakeVars, monVars, gapVars, scanVars, orchVars, routerVars>>

CallGetTokenSymbol ==
    /\ \E token \in ResolverTokens :
         r_call' = ResolverCall("getTokenSymbol", token, "", "",
                      ResolverReturn(NoResolution, resolverTokenSymbol(token), FALSE))
    /\ UNCHANGED <<mathVars, buildVars, syncVars, fetchVars, usdVars, pancakeVars, monVars, gapVars, scanVars, orchVars, routerVars>>

CallPairInvolvesUSDC ==
    /\ \E tokenIn \in ResolverTokens, tokenOut \in ResolverTokens :
         r_call' = ResolverCall("pairInvolvesUSDC", tokenIn, tokenOut, "",
                      ResolverReturn(NoResolution, "",
                                     pairInvolvesUSDC(tokenIn, tokenOut)))
    /\ UNCHANGED <<mathVars, buildVars, syncVars, fetchVars, usdVars, pancakeVars, monVars, gapVars, scanVars, orchVars, routerVars>>

ResolverNext ==
    \/ CallResolve
    \/ CallGetAlternative
    \/ CallIsUSDC
    \/ CallGetTokenSymbol
    \/ CallPairInvolvesUSDC

(* ----------------------------------------------------------------------- *)
(* ExecutionOrchestrator (execution/orchestrator): safety gates and the    *)
(* gas spent                                                               *)
(* ----------------------------------------------------------------------- *)
(* estimateGas of the calculator: gas units of a flashloan arbitrage *)
baseGas == 100000
swapGas == 150000
flashloanGas == 200000

(* config/strategy.json: arbitrage.gasMultiplier in hundredths,            *)
(* safety.maxGasPrice and safety.dailyGasBudget; amounts of wei are        *)
(* counted in units of 10 gwei, the configured maximum gas price           *)
gasMultiplierPercent == 120
maxGasPrice == 1
dailyGasBudgetWei == 2000000

(* the constructor's safetyGates.minSpreadPercent = 0.3, in hundredths of  *)
(* a percent, and the ETH price the estimate assumes                       *)
gateMinSpreadPercent == 30
ethPriceUSD == 2000
WeiPerEth == Pow10(8)

(* simulate.ts 119-146: estimateGas("complex") *)
estimateGas ==
    LET gasUnits == ((baseGas + 2 * swapGas + flashloanGas) * gasMultiplierPercent) \div 100
    IN  [gasUnits |-> gasUnits, gasPriceWei |-> maxGasPrice, gasCostWei |-> gasUnits * maxGasPrice]

(* simulate.ts 161-192: the net profit of calculateProfit, in wei; the     *)
(* flashloan fee is 0                                                      *)
netProfitWei(amountIn, amountOut, gasCost) ==
    LET grossProfit == IF amountOut > amountIn THEN amountOut - amountIn ELSE 0
    IN  IF grossProfit > gasCost THEN grossProfit - gasCost ELSE 0

(* lines 126-165: the safety gates; netProfitUSD < minProfitUSD is         *)
(* compared in wei * USD                                                   *)
shouldExecute(opportunity, cfg, gasSpent) ==
    IF opportunity.spreadPercent < gateMinSpreadPercent THEN FALSE
    ELSE IF netProfitWei(opportunity.profitPotential, opportunity.profitPotential, estimateGas.gasCostWei) * ethPriceUSD < cfg.minProfitUSD * WeiPerEth THEN FALSE
    ELSE IF gasSpent + estimateGas.gasCostWei > dailyGasBudgetWei THEN FALSE
    ELSE IF estimateGas.gasPriceWei > maxGasPrice THEN FALSE
    ELSE TRUE

(* the configurations: dry run or not, a private key or none, and the      *)
(* configured minimum profit in USD                                        *)
OrchConfigs == [dryRun : BOOLEAN, privateKey : BOOLEAN, minProfitUSD : {0, 3}]

(* what findArbitrageOpportunity answers: null or an opportunity *)
NoOpportunity == [found |-> FALSE, spreadPercent |-> 0, profitPotential |-> 0]
OrchOpportunities == {NoOpportunity} \cup [found : {TRUE}, spreadPercent : {gateMinSpreadPercent - 1, gateMinSpreadPercent}, profitPotential : {WeiPerEth}]

(* the receipts of a mined transaction: gasUsed, and gasPrice or none *)
ReceiptGasUsed == {500000, 600000, estimateGas.gasUnits, 900000}
ReceiptGasPrices == {0, maxGasPrice}

NoOrchStep == [op |-> "none", executed |-> FALSE, gasCost |-> 0]

OrchIdle(pc) ==
    /\ o_pc = pc
    /\ o_cfg = [dryRun |-> TRUE, privateKey |-> FALSE, minProfitUSD |-> 0]
    /\ currentGasSpent = 0
    /\ o_last = NoOrchStep

(* lines 92-118 and 170-222, one pair of scanAndExecute: the opportunity   *)
(* is fetched, gated and, when it passes, the flashloan transaction is     *)
(* submitted                                                               *)
OrchProcessPair ==
    /\ o_pc = "scanning"
    /\ \E opportunity \in OrchOpportunities :
         IF ~opportunity.found \/ ~shouldExecute(opportunity, o_cfg, currentGasSpent)
         THEN /\ o_pc' = "scanning"
              /\ o_last' = [NoOrchStep EXCEPT !.op = IF opportunity.found THEN "gated" ELSE "no opportunity"]
         ELSE IF o_cfg.dryRun
         THEN /\ o_pc' = "scanning"
              /\ o_last' = [NoOrchStep EXCEPT !.op = "dry run"]
         ELSE IF ~o_cfg.privateKey
         THEN /\ o_pc' = "scanning"
              /\ o_last' = [NoOrchStep EXCEPT !.op = "no wallet"]
         ELSE /\ o_pc' = "submitted"
              /\ o_last' = [NoOrchStep EXCEPT !.op = "submitted"]
    /\ UNCHANGED <<o_cfg, currentGasSpent>>
    /\ UNCHANGED <<mathVars, buildVars, syncVars, fetchVars, usdVars, pancakeVars, monVars, gapVars, scanVars, resolverVars, routerVars>>

(* lines 220-230: the transaction is mined and its receipt is read *)
OrchTransactionConfirmed ==
    /\ o_pc = "submitted"
    /\ \E gasUsed \in ReceiptGasUsed, gasPrice \in ReceiptGasPrices :
         /\ currentGasSpent' = currentGasSpent + gasUsed * gasPrice
         /\ o_last' = [op |-> "confirmed", executed |-> TRUE, gasCost |-> gasUsed * gasPrice]
    /\ o_pc' = "scanning"
    /\ UNCHANGED o_cfg
    /\ UNCHANGED <<mathVars, buildVars, syncVars, fetchVars, usdVars, pancakeVars, monVars, gapVars, scanVars, resolverVars, routerVars>>

(* lines 231-233: executeFlashloan or tx.wait() throws *)
OrchTransactionFails ==
    /\ o_pc = "submitted"
    /\ o_pc' = "scanning"
    /\ o_last' = [NoOrchStep EXCEPT !.op = "failed"]
    /\ UNCHANGED <<o_cfg, currentGasSpent>>
    /\ UNCHANGED <<mathVars, buildVars, syncVars, fetchVars, usdVars, pancakeVars, monVars, gapVars, scanVars, resolverVars, routerVars>>

(* lines 277-280 *)
OrchResetDailyGasBudget ==
    /\ o_pc \in {"scanning", "submitted"}
    /\ currentGasSpent' = 0
    /\ o_last' = [NoOrchStep EXCEPT !.op = "reset"]
    /\ UNCHANGED <<o_pc, o_cfg>>
    /\ UNCHANGED <<mathVars, buildVars, syncVars, fetchVars, usdVars, pancakeVars, monVars, gapVars, scanVars, resolverVars, routerVars>>

OrchNext ==
    \/ OrchProcessPair
    \/ OrchTransactionConfirmed
    \/ OrchTransactionFails
    \/ OrchResetDailyGasBudget

(* ----------------------------------------------------------------------- *)
(* FlashloanRouterUpgradeable (contracts): executeFlashloanMulti and the   *)
(* receiveFlashLoan callback of the SyncSwap vault                         *)
(* ----------------------------------------------------------------------- *)
EXECUTOR_ADDRESS == "arbitrageExecutor"
VAULT_ADDRESS == "0x621425a1Ef6abE91058E9712575dcc4258F8d091"
BOT_ADDRESS == "bot"
OTHER_ADDRESS == "other"

(* ReentrancyGuardUpgradeable: the two values of _status *)
NOT_ENTERED == 1
ENTERED == 2

(* the nonReentrant modifier on entry: the call reverts when a             *)
(* nonReentrant function of the contract is already running                *)
nonReentrantBefore(status) ==
    IF status = ENTERED
    THEN [reverted |-> TRUE, reason |-> "ReentrancyGuard: reentrant call", status |-> status]
    ELSE [reverted |-> FALSE, reason |-> "", status |-> ENTERED]

(* token balances of the router, the executor and the vault *)
LoanAmount == 2
InitialBalances == [router |-> 0, executor |-> 1, vault |-> LoanAmount]

(* a transaction: the function called, its sender, the length of tokens[], *)
(* the vault's fee, and how the executor contract behaves (its call        *)
(* succeeds; it has approved the router and holds amount + fee)            *)
RouterTx(fn, sender, tokensLength, feeAmount, executorSucceeds, executorRepays) == [fn |-> fn, sender |-> sender, tokensLength |-> tokensLength, feeAmount |-> feeAmount, executorSucceeds |-> executorSucceeds, executorRepays |-> executorRepays, authorized |-> FALSE, callback |-> FALSE]
NoRouterTx == RouterTx("none", "", 0, 0, FALSE, FALSE)
FeeAmounts == {0, 1}

RouterIdle(pc) ==
    /\ x_pc = pc
    /\ paused = FALSE
    /\ arbitrageExecutor = ZERO_ADDRESS
    /\ syncSwapVault = VAULT_ADDRESS
    /\ executorRole = {}
    /\ reentrancyStatus = NOT_ENTERED
    /\ balances = InitialBalances
    /\ x_tx = NoRouterTx
    /\ x_result = "none"

(* a transaction that reverts leaves the storage and the balances as they  *)
(* were before it                                                          *)
RouterReverts(tx, reason) ==
    /\ x_pc' = "ended"
    /\ x_result' = reason
    /\ x_tx' = tx
    /\ reentrancyStatus' = NOT_ENTERED
    /\ balances' = InitialBalances

(* AccessControl: the admin grants or revokes EXECUTOR_ROLE *)
RouterGrantRole ==
    /\ x_pc = "ready"
    /\ \E account \in {BOT_ADDRESS} :
         executorRole' = IF account \in executorRole THEN executorRole \ {account} ELSE executorRole \cup {account}
    /\ UNCHANGED <<x_pc, paused, arbitrageExecutor, syncSwapVault, reentrancyStatus, balances, x_tx, x_result>>
    /\ UNCHANGED <<mathVars, buildVars, syncVars, fetchVars, usdVars, pancakeVars, monVars, gapVars, scanVars, resolverVars, orchVars>>

(* lines 326-330 *)
RouterSetArbitrageExecutor ==
    /\ x_pc = "ready"
    /\ arbitrageExecutor' = EXECUTOR_ADDRESS
    /\ UNCHANGED <<x_pc, paused, syncSwapVault, executorRole, reentrancyStatus, balances, x_tx, x_result>>
    /\ UNCHANGED <<mathVars, buildVars, syncVars, fetchVars, usdVars, pancakeVars, monVars, gapVars, scanVars, resolverVars, orchVars>>

(* lines 347-350 *)
RouterSetPaused ==
    /\ x_pc = "ready"
    /\ \E newState \in BOOLEAN : paused' = newState
    /\ UNCHANGED <<x_pc, arbitrageExecutor, syncSwapVault, executorRole, reentrancyStatus, balances, x_tx, x_result>>
    /\ UNCHANGED <<mathVars, buildVars, syncVars, fetchVars, usdVars, pancakeVars, monVars, gapVars, scanVars, resolverVars, orchVars>>

(* lines 227-245: executeFlashloanMulti up to its call of the vault *)
RouterExecuteFlashloanMulti ==
    /\ x_pc = "ready"
    /\ \E sender \in {BOT_ADDRESS, OTHER_ADDRESS}, tokensLength \in {0, 1}, feeAmount \in FeeAmounts, executorSucceeds \in BOOLEAN, executorRepays \in BOOLEAN :
         LET tx == RouterTx("executeFlashloanMulti", sender, tokensLength, feeAmount, executorSucceeds, executorRepays)
             guard == nonReentrantBefore(reentrancyStatus)
         IN  IF guard.reverted THEN RouterReverts(tx, guard.reason)
             ELSE IF sender \notin executorRole THEN RouterReverts(tx, "AccessControl: account is missing role")
             ELSE IF paused THEN RouterReverts(tx, "Contract is paused")
             ELSE IF arbitrageExecutor = ZERO_ADDRESS THEN RouterReverts(tx, "Arbitrage executor not set")
             ELSE IF syncSwapVault = ZERO_ADDRESS THEN RouterReverts(tx, "SyncSwap vault not set")
             ELSE IF ~(tokensLength > 0) THEN RouterReverts(tx, "Empty arrays")
             ELSE /\ reentrancyStatus' = guard.status
                  /\ x_tx' = [tx EXCEPT !.authorized = TRUE]
                  /\ x_pc' = "flashLoan"
                  /\ x_result' = "none"
                  /\ UNCHANGED balances
    /\ UNCHANGED <<paused, arbitrageExecutor, syncSwapVault, executorRole>>
    /\ UNCHANGED <<mathVars, buildVars, syncVars, fetchVars, usdVars, pancakeVars, monVars, gapVars, scanVars, resolverVars, orchVars>>

(* any account asks the vault for a flash loan with the router as the      *)
(* recipient                                                               *)
VaultFlashLoanCalled ==
    /\ x_pc = "ready"
    /\ \E feeAmount \in FeeAmounts, executorSucceeds \in BOOLEAN, executorRepays \in BOOLEAN :
         x_tx' = RouterTx("vault.flashLoan", OTHER_ADDRESS, 1, feeAmount, executorSucceeds, executorRepays)
    /\ x_pc' = "flashLoan"
    /\ x_result' = "none"
    /\ UNCHANGED <<paused, arbitrageExecutor, syncSwapVault, executorRole, reentrancyStatus, balances>>
    /\ UNCHANGED <<mathVars, buildVars, syncVars, fetchVars, usdVars, pancakeVars, monVars, gapVars, scanVars, resolverVars, orchVars>>

(* ISyncSwapVault.flashLoan (lines 15-22): the vault sends the amounts to  *)
(* the recipient and calls its receiveFlashLoan                            *)
VaultFlashLoan ==
    /\ x_pc = "flashLoan"
    /\ balances' = [balances EXCEPT !.vault = @ - LoanAmount, !.router = @ + LoanAmount]
    /\ x_tx' = [x_tx EXCEPT !.callback = TRUE]
    /\ x_pc' = "receiveFlashLoan"
    /\ UNCHANGED <<paused, arbitrageExecutor, syncSwapVault, executorRole, reentrancyStatus, x_result>>
    /\ UNCHANGED <<mathVars, buildVars, syncVars, fetchVars, usdVars, pancakeVars, monVars, gapVars, scanVars, resolverVars, orchVars>>

(* lines 254-283: receiveFlashLoan called by the vault; the executor's     *)
(* answer and the repayment are part of it                                 *)
RouterReceiveFlashLoan ==
    /\ x_pc = "receiveFlashLoan"
    /\ LET guard == nonReentrantBefore(reentrancyStatus)
           repayAmount == LoanAmount + x_tx.feeAmount
       IN  IF guard.reverted THEN RouterReverts(x_tx, guard.reason)
           ELSE IF arbitrageExecutor = ZERO_ADDRESS THEN RouterReverts(x_tx, "Arbitrage executor not set")
           ELSE IF ~x_tx.executorSucceeds THEN RouterReverts(x_tx, "Arbitrage execution failed")
           ELSE IF ~x_tx.executorRepays \/ balances.executor + LoanAmount < repayAmount THEN RouterReverts(x_tx, "SafeERC20: transfer failed")
           ELSE /\ balances' = [balances EXCEPT !.router = @ - LoanAmount, !.executor = @ + LoanAmount - repayAmount, !.vault = @ + repayAmount]
                /\ reentrancyStatus' = NOT_ENTERED
                /\ x_pc' = "repaid"
                /\ UNCHANGED <<x_tx, x_result>>
    /\ UNCHANGED <<paused, arbitrageExecutor, syncSwapVault, executorRole>>
    /\ UNCHANGED <<mathVars, buildVars, syncVars, fetchVars, usdVars, pancakeVars, monVars, gapVars, scanVars, resolverVars, orchVars>>

(* lines 260: receiveFlashLoan called by an account that is not the vault *)
RouterReceiveFlashLoanFromOther ==
    /\ x_pc = "ready"
    /\ LET tx == RouterTx("receiveFlashLoan", OTHER_ADDRESS, 1, 0, FALSE, FALSE)
           guard == nonReentrantBefore(reentrancyStatus)
       IN  IF guard.reverted THEN RouterReverts(tx, guard.reason)
           ELSE RouterReverts(tx, "Only SyncSwap Vault can call")
    /\ UNCHANGED <<paused, arbitrageExecutor, syncSwapVault, executorRole>>
    /\ UNCHANGED <<mathVars, buildVars, syncVars, fetchVars, usdVars, pancakeVars, monVars, gapVars, scanVars, resolverVars, orchVars>>

(* the vault has been repaid and returns; executeFlashloanMulti, if it     *)
(* made the call, returns and its nonReentrant modifier resets _status     *)
VaultReturns ==
    /\ x_pc = "repaid"
    /\ x_pc' = "ended"
    /\ x_result' = "success"
    /\ reentrancyStatus' = NOT_ENTERED
    /\ UNCHANGED <<paused, arbitrageExecutor, syncSwapVault, executorRole, balances, x_tx>>
    /\ UNCHANGED <<mathVars, buildVars, syncVars, fetchVars, usdVars, pancakeVars, monVars, gapVars, scanVars, resolverVars, orchVars>>

(* the next transaction; the tokens are back where they were *)
RouterNextTransaction ==
    /\ x_pc = "ended"
    /\ x_pc' = "ready"
    /\ x_tx' = NoRouterTx
    /\ x_result' = "none"
    /\ balances' = InitialBalances
    /\ UNCHANGED <<paused, arbitrageExecutor, syncSwapVault, executorRole, reentrancyStatus>>
    /\ UNCHANGED <<mathVars, buildVars, syncVars, fetchVars, usdVars, pancakeVars, monVars, gapVars, scanVars, resolverVars, orchVars>>

RouterNext ==
    \/ RouterGrantRole
    \/ RouterSetArbitrageExecutor
    \/ RouterSetPaused
    \/ RouterExecuteFlashloanMulti
    \/ VaultFlashLoanCalled
    \/ VaultFlashLoan
    \/ RouterReceiveFlashLoan
    \/ RouterReceiveFlashLoanFromOther
    \/ VaultReturns
    \/ RouterNextTransaction

(* ----------------------------------------------------------------------- *)
(* Specifications                                                          *)
(* ----------------------------------------------------------------------- *)
(* the math library called on drawn arguments *)
InitMath ==
    /\ m_pc = "ready"
    /\ m_fn = Undefined
    /\ m_args \in [a : MathAmounts, b : MathAmounts, c : MathScales, whole : {<<>>}, fractional : {<<>>}]
    /\ m_ret = Undefined
    /\ BuildIdle("idle")
    /\ SyncIdle({})
    /\ FetchIdle("idle")
    /\ UsdIdle("idle")
    /\ PancakeIdle("idle")
    /\ MonIdle("idle")
    /\ GapIdle("idle")
    /\ ScanIdle("idle")
    /\ ResolverIdle("idle")
    /\ OrchIdle("idle")
    /\ RouterIdle("idle")

SpecMath == InitMath /\ [][MathNext]_vars

(* a decimal string, an amount and the two precisions, before the call *)
InitAmounts ==
    /\ m_pc = "ready"
    /\ m_fn = Undefined
    /\ m_args \in [a : FormattedAmounts, b : 0 .. MaxDecimals, c : 0 .. MaxDecimals, whole : WholeStrings, fractional : FractionalStrings]
    /\ m_ret = Undefined
    /\ BuildIdle("idle")
    /\ SyncIdle({})
    /\ FetchIdle("idle")
    /\ UsdIdle("idle")
    /\ PancakeIdle("idle")
    /\ MonIdle("idle")
    /\ GapIdle("idle")
    /\ ScanIdle("idle")
    /\ ResolverIdle("idle")
    /\ OrchIdle("idle")
    /\ RouterIdle("idle")

SpecAmounts == InitAmounts /\ [][AmountsNext]_vars

(* one buildOpportunity call on drawn quotes and configuration *)
InitBuild ==
    /\ b_pc = "ready"
    /\ b_cfg \in BuildConfigs
    /\ b_in \in [ metaA : BOOLEAN, metaB : BOOLEAN,
                  amountIn : {BuildAmountIn},
                  finalA : { BuildAmountIn + d : d \in BuildOffsets } ]
    /\ b_loc = Undefined
    /\ b_opp = Undefined
    /\ MathIdle("idle")
    /\ SyncIdle({})
    /\ FetchIdle("idle")
    /\ UsdIdle("idle")
    /\ PancakeIdle("idle")
    /\ MonIdle("idle")
    /\ GapIdle("idle")
    /\ ScanIdle("idle")
    /\ ResolverIdle("idle")
    /\ OrchIdle("idle")
    /\ RouterIdle("idle")

SpecBuild == InitBuild /\ [][BuildNext]_vars

(* the SyncSwap adapter of one process, calls overlapping at their awaits *)
InitSync ==
    /\ errorCounters = [k \in SyncKeys |-> 0]
    /\ disabledPairs = {}
    /\ calls = EmptyBag
    /\ s_last = NoLast
    /\ streak = [k \in SyncKeys |-> 0]
    /\ tripped = {}
    /\ MathIdle("idle")
    /\ BuildIdle("idle")
    /\ FetchIdle("idle")
    /\ UsdIdle("idle")
    /\ PancakeIdle("idle")
    /\ MonIdle("idle")
    /\ GapIdle("idle")
    /\ ScanIdle("idle")
    /\ ResolverIdle("idle")
    /\ OrchIdle("idle")
    /\ RouterIdle("idle")

SpecSync == InitSync /\ [][SyncNext]_vars

(* fetchBestQuote called again and again by one process *)
InitFetch ==
    /\ f_pc = "ready"
    /\ f_cfg \in FetchConfigs
    /\ f_in \in FetchInputs
    /\ prices = <<>>
    /\ f_invoked = <<>>
    /\ f_last = NoAdapterCall
    /\ bestQuote = NullQuote
    /\ MathIdle("idle")
    /\ BuildIdle("idle")
    /\ SyncIdle({})
    /\ UsdIdle("idle")
    /\ PancakeIdle("idle")
    /\ MonIdle("idle")
    /\ GapIdle("idle")
    /\ ScanIdle("idle")
    /\ ResolverIdle("idle")
    /\ OrchIdle("idle")
    /\ RouterIdle("idle")

SpecFetch == InitFetch /\ [][FetchNext]_vars

(* one UsdConverter, its conversions called one after the other *)
InitUsd ==
    /\ cache = EmptyCache
    /\ clock = 0
    /\ u_call = [NoCall EXCEPT !.pc = "ready"]
    /\ u_stored = [k \in CacheKeys |-> 0 - 1]
    /\ MathIdle("idle")
    /\ BuildIdle("idle")
    /\ SyncIdle({})
    /\ FetchIdle("idle")
    /\ PancakeIdle("idle")
    /\ MonIdle("idle")
    /\ GapIdle("idle")
    /\ ScanIdle("idle")
    /\ ResolverIdle("idle")
    /\ OrchIdle("idle")
    /\ RouterIdle("idle")

SpecUsd == InitUsd /\ [][UsdNext]_vars

(* one fetchPancakeSwapV3Price call *)
InitPancake ==
    /\ p_pc = "ready"
    /\ p_in \in PancakeInputs
    /\ p_paths = [k \in 1 .. Len(pancakePaths(p_in.tokenIn, p_in.tokenOut)) |->
                    UnstartedPath]
    /\ p_attempts = <<>>
    /\ p_i = 0
    /\ p_clock = 0
    /\ p_startedAt = 0
    /\ p_quote = Rejects
    /\ MathIdle("idle")
    /\ BuildIdle("idle")
    /\ SyncIdle({})
    /\ FetchIdle("idle")
    /\ UsdIdle("idle")
    /\ MonIdle("idle")
    /\ GapIdle("idle")
    /\ ScanIdle("idle")
    /\ ResolverIdle("idle")
    /\ OrchIdle("idle")
    /\ RouterIdle("idle")

SpecPancake == InitPancake /\ [][PancakeNext]_vars

(* a PriceGapMonitor as constructed *)
InitMonitor ==
    /\ g_pc = "idle"
    /\ isRunning = FALSE
    /\ scanCount = 0
    /\ g_remaining = 0
    /\ g_timer = 0
    /\ g_running = {}
    /\ g_settled = NoScan
    /\ g_event = ""
    /\ g_swept = 0
    /\ MathIdle("idle")
    /\ BuildIdle("idle")
    /\ SyncIdle({})
    /\ FetchIdle("idle")
    /\ UsdIdle("idle")
    /\ PancakeIdle("idle")
    /\ GapIdle("idle")
    /\ ScanIdle("idle")
    /\ ResolverIdle("idle")
    /\ OrchIdle("idle")
    /\ RouterIdle("idle")

SpecMonitor == InitMonitor /\ [][MonitorNext]_vars

(* the event loop runs what is due: time passes, a timer that is due fires *)
(* and the loop condition is evaluated                                     *)
SpecMonitorLive ==
    /\ InitMonitor
    /\ [][MonitorNext]_vars
    /\ WF_vars(MonTimePasses)
    /\ WF_vars(MonWake)
    /\ WF_vars(MonLoopTest)
    /\ WF_vars(MonTickResumes)

(* the price_gaps table of a new database *)
InitGaps ==
    /\ price_gaps = <<>>
    /\ d_clock = 0
    /\ d_last = [NoGapOp EXCEPT !.op = "created"]
    /\ MathIdle("idle")
    /\ BuildIdle("idle")
    /\ SyncIdle({})
    /\ FetchIdle("idle")
    /\ UsdIdle("idle")
    /\ PancakeIdle("idle")
    /\ MonIdle("idle")
    /\ ScanIdle("idle")
    /\ ResolverIdle("idle")
    /\ OrchIdle("idle")
    /\ RouterIdle("idle")

SpecGaps == InitGaps /\ [][GapNext]_vars

(* an OpportunityBuilder before its first scan *)
InitScan ==
    /\ sc_pc = "ready"
    /\ sc_option = [given |-> FALSE, value |-> 0]
    /\ sc_i = 0
    /\ opportunities = <<>>
    /\ sc_built = <<>>
    /\ sc_last = NoIteration
    /\ MathIdle("idle")
    /\ BuildIdle("idle")
    /\ SyncIdle({})
    /\ FetchIdle("idle")
    /\ UsdIdle("idle")
    /\ PancakeIdle("idle")
    /\ MonIdle("idle")
    /\ GapIdle("idle")
    /\ ResolverIdle("idle")
    /\ OrchIdle("idle")
    /\ RouterIdle("idle")

SpecScan == InitScan /\ [][ScanNext]_vars

(* a DEXTokenResolver as constructed *)
InitResolver ==
    /\ r_call = ResolverCall("constructed", "", "", "",
                             ResolverReturn(NoResolution, "", FALSE))
    /\ MathIdle("idle")
    /\ BuildIdle("idle")
    /\ SyncIdle({})
    /\ FetchIdle("idle")
    /\ UsdIdle("idle")
    /\ PancakeIdle("idle")
    /\ MonIdle("idle")
    /\ GapIdle("idle")
    /\ ScanIdle("idle")
    /\ OrchIdle("idle")
    /\ RouterIdle("idle")

SpecResolver == InitResolver /\ [][ResolverNext]_vars

(* the orchestrator constructed with any configuration *)
InitOrch ==
    /\ o_pc = "scanning"
    /\ o_cfg \in OrchConfigs
    /\ currentGasSpent = 0
    /\ o_last = NoOrchStep
    /\ MathIdle("idle")
    /\ BuildIdle("idle")
    /\ SyncIdle({})
    /\ FetchIdle("idle")
    /\ UsdIdle("idle")
    /\ PancakeIdle("idle")
    /\ MonIdle("idle")
    /\ GapIdle("idle")
    /\ ScanIdle("idle")
    /\ ResolverIdle("idle")
    /\ RouterIdle("idle")

SpecOrch == InitOrch /\ [][OrchNext]_vars

(* the router after initialize(admin) *)
InitRouter ==
    /\ x_pc = "ready"
    /\ paused = FALSE
    /\ arbitrageExecutor = ZERO_ADDRESS
    /\ syncSwapVault = VAULT_ADDRESS
    /\ executorRole = {}
    /\ reentrancyStatus = NOT_ENTERED
    /\ balances = InitialBalances
    /\ x_tx = NoRouterTx
    /\ x_result = "none"
    /\ MathIdle("idle")
    /\ BuildIdle("idle")
    /\ SyncIdle({})
    /\ FetchIdle("idle")
    /\ UsdIdle("idle")
    /\ PancakeIdle("idle")
    /\ MonIdle("idle")
    /\ GapIdle("idle")
    /\ ScanIdle("idle")
    /\ ResolverIdle("idle")
    /\ OrchIdle("idle")

SpecRouter == InitRouter /\ [][RouterNext]_vars

(* ----------------------------------------------------------------------- *)
(* C9: for amountIn > 0 and amountOut >= 0, calculateGrossSpreadBps is     *)
(* strictly positive iff amountOut > amountIn, zero iff amountOut =        *)
(* amountIn, strictly negative iff amountOut < amountIn (as claimed).      *)
(* ----------------------------------------------------------------------- *)
SpreadCallDone ==
    /\ m_pc = "done"
    /\ m_fn = "calculateGrossSpreadBps"
    /\ m_args.a > 0
    /\ m_args.b >= 0

C9_SignIffOrder ==
    SpreadCallDone =>
        /\ (m_ret > 0) <=> (m_args.b > m_args.a)
        /\ (m_ret = 0) <=> (m_args.b = m_args.a)
        /\ (m_ret < 0) <=> (m_args.b < m_args.a)

(* C9 as amended: the result is the basis-point ratio truncated toward     *)
(* zero, so it is positive iff the gain is at least one basis point of     *)
(* amountIn, negative iff the loss is at least one basis point, and zero   *)
(* iff the difference is below one basis point; its sign never contradicts *)
(* the order of the amounts and losses are never clamped.                  *)
C9_SignIffWholeBasisPoint ==
    SpreadCallDone =>
        LET gain == m_args.b - m_args.a
        IN  /\ (m_ret > 0) <=> (gain * BPS_DENOMINATOR >= m_args.a)
            /\ (m_ret < 0) <=> ((0 - gain) * BPS_DENOMINATOR >= m_args.a)
            /\ (m_ret = 0) <=> (Abs(gain) * BPS_DENOMINATOR < m_args.a)
            /\ (m_ret > 0) => (m_args.b > m_args.a)
            /\ (m_ret < 0) => (m_args.b < m_args.a)
            /\ (m_args.b = m_args.a) => (m_ret = 0)

(* a gain below one basis point of amountIn has been measured as zero *)
C9_Witness ==
    /\ SpreadCallDone
    /\ m_args.b > m_args.a
    /\ m_ret = 0

(* ----------------------------------------------------------------------- *)
(* C10: in every Opportunity returned by buildOpportunity, recognized is   *)
(* true exactly when grossSpreadBps > 0, and executable is true exactly    *)
(* when recognized, netProfitEst >= the configured minimum profit and      *)
(* slipAdjSpreadBps > 0.                                                   *)
(* ----------------------------------------------------------------------- *)
C10_RecognizedExecutable ==
    (b_pc = "returned") =>
        /\ b_opp.recognized <=> (b_opp.grossSpreadBps > 0)
        /\ b_opp.executable <=>
              ( /\ b_opp.recognized
                /\ b_opp.netProfitEst >= b_cfg.minProfitUsdc
                /\ b_opp.slipAdjSpreadBps > 0 )

(* a recognized opportunity that clears the profit gate but not the        *)
(* slippage gate                                                           *)
C10_Witness ==
    /\ b_pc = "returned"
    /\ b_opp.recognized
    /\ b_opp.netProfitEst >= b_cfg.minProfitUsdc
    /\ b_opp.slipAdjSpreadBps <= 0
    /\ ~b_opp.executable

(* ----------------------------------------------------------------------- *)
(* C6: once 5 consecutive quote requests of an ordered pair have failed    *)
(* the pair is disabled, and a request for a disabled pair returns a       *)
(* failure marked disabled without any network call; no pair is disabled   *)
(* and no request short-circuits before 5 consecutive failures, and a      *)
(* request that goes to the network was made after fewer than 5.           *)
(* ----------------------------------------------------------------------- *)
C6_DisabledAtThreshold ==
    /\ \A k \in SyncKeys : streak[k] >= MAX_CONSECUTIVE_ERRORS => k \in disabledPairs
    /\ \A k \in disabledPairs : k \in tripped
    /\ (s_last.op = "shortcut") =>
          /\ s_last.key \in tripped
          /\ s_last.result.disabled = TRUE
          /\ ~s_last.result.success
          /\ s_last.result.amountOut = 0
          /\ s_last.netCalls = 0
    /\ (s_last.op = "started") => streak[s_last.key] < MAX_CONSECUTIVE_ERRORS
    /\ (s_last.op = "returned") => s_last.netCalls > 0

(* the request right after the fifth consecutive failure short-circuits *)
C6_Witness ==
    /\ s_last.op = "shortcut"
    /\ streak[s_last.key] = MAX_CONSECUTIVE_ERRORS
    /\ s_last.before = MAX_CONSECUTIVE_ERRORS

(* ----------------------------------------------------------------------- *)
(* C7: a successful quote of an ordered pair resets the pair's counter to  *)
(* zero and a failed one adds one to it, so the counter always equals the  *)
(* number of failures since the pair's last success.                       *)
(* ----------------------------------------------------------------------- *)
C7_SuccessResetsCounter ==
    /\ \A k \in SyncKeys : errorCounters[k] = streak[k]
    /\ (s_last.op = "returned" /\ s_last.result.success) =>
          errorCounters[s_last.key] = 0
    /\ (s_last.op = "returned" /\ ~s_last.result.success) =>
          errorCounters[s_last.key] = s_last.before + 1

(* a success returned when one more failure would have disabled the pair *)
C7_Witness ==
    /\ s_last.op = "returned"
    /\ s_last.result.success
    /\ s_last.before = MAX_CONSECUTIVE_ERRORS - 1
    /\ errorCounters[s_last.key] = 0
    /\ s_last.key \notin disabledPairs

(* ----------------------------------------------------------------------- *)
(* C8: a disabled pair stays disabled through every step other than        *)
(* resetSyncSwapState, the late success of a call already in flight        *)
(* included, and no request for a disabled pair goes to the network.       *)
(* ----------------------------------------------------------------------- *)
C8_DisabledIsPermanent ==
    [][ /\ \A k \in disabledPairs : k \in disabledPairs' \/ s_last'.op = "reset"
        /\ \A c \in BagToSet(calls') :
              InFlight(c)' > InFlight(c) =>
                  pairKey(c.tokenIn, c.tokenOut) \notin disabledPairs ]_vars

(* a call in flight when its pair was disabled has returned a success and  *)
(* the pair is still disabled                                              *)
C8_Witness ==
    /\ s_last.op = "returned"
    /\ s_last.result.success
    /\ s_last.key \in disabledPairs
    /\ errorCounters[s_last.key] = 0

(* ----------------------------------------------------------------------- *)
(* C1: every adapter quote operation completes by returning a Quote        *)
(* whatever its network calls answer: an adapter call rejects only when a  *)
(* statement outside its try block threw, never because of a network       *)
(* answer; a settled call that did not reject has pushed its Quote; and    *)
(* every failure Quote has success = false, amountOut = 0 and a non-empty  *)
(* error reason.                                                           *)
(* ----------------------------------------------------------------------- *)
C1_AdaptersNeverThrow ==
    /\ f_last.threw => f_last.prologueThrew
    /\ (f_last.dex # "" /\ ~f_last.threw /\ f_pc # "ready") =>
          /\ Len(prices) >= 1
          /\ prices[Len(prices)].dex = f_last.dex
    /\ \A i \in 1 .. Len(prices) :
          ~prices[i].success =>
            /\ prices[i].amountOut = 0
            /\ prices[i].error \notin {Undefined, ""}

(* all four adapters have failed on their network calls *)
C1_Witness ==
    /\ f_pc = "collect"
    /\ Len(prices) = Len(ADAPTERS)
    /\ \A i \in 1 .. Len(prices) : ~prices[i].success
    /\ prices[1].error = "execution reverted"
    /\ prices[2].error = "All quote methods failed"
    /\ prices[3].error = "timeout"
    /\ prices[4].error = "All Velocore quote methods failed"

(* ----------------------------------------------------------------------- *)
(* C2: when an adapter call of fetchAllPrices rejects with an exception    *)
(* that escaped the adapter, fetchAllPrices does not reject: the remaining *)
(* enabled adapters are invoked and it returns.                            *)
(* ----------------------------------------------------------------------- *)
C2_EscapedExceptionIsolated ==
    f_last.threw =>
      /\ f_pc # "rejected"
      /\ (f_pc = "returned" => f_invoked = EnabledAdapters(f_cfg))

(* ----------------------------------------------------------------------- *)
(* C3: fetchAllPrices returns unless an exception escaped an adapter, and  *)
(* what it returns holds exactly one Quote per enabled adapter in the      *)
(* declaration order mute, syncswap_v1, pancakeswap_v3, velocore, whatever *)
(* subset of them succeeded.                                               *)
(* ----------------------------------------------------------------------- *)
C3_OneQuotePerEnabledAdapter ==
    /\ f_pc = "rejected" => f_last.prologueThrew
    /\ f_pc \in {"collect", "returned"} =>
          [i \in 1 .. Len(prices) |-> prices[i].dex] = EnabledAdapters(f_cfg)

(* every adapter is enabled and every one of them failed *)
C3_Witness ==
    /\ f_pc = "returned"
    /\ Len(prices) = Len(ADAPTERS)
    /\ \A i \in 1 .. Len(prices) : ~prices[i].success
    /\ bestQuote.isNull

(* ----------------------------------------------------------------------- *)
(* C4: fetchBestQuote returns the successful quote with the greatest       *)
(* amountOut, the first declared among equals, and null when and only when *)
(* no quote is successful.                                                 *)
(* ----------------------------------------------------------------------- *)
C4_BestIsGreatestSuccess ==
    f_pc = "returned" =>
      LET successes == { i \in 1 .. Len(prices) : prices[i].success }
      IN  /\ bestQuote.isNull <=> successes = {}
          /\ successes # {} =>
                \E i \in successes :
                  /\ bestQuote.quote = prices[i]
                  /\ \A j \in successes :
                        /\ prices[j].amountOut <= prices[i].amountOut
                        /\ prices[j].amountOut = prices[i].amountOut => i <= j

(* ----------------------------------------------------------------------- *)
(* C5: every Quote an adapter returned with success = true has             *)
(* amountOut > 0.                                                          *)
(* ----------------------------------------------------------------------- *)
C5_SuccessHasPositiveOutput ==
    \A i \in 1 .. Len(prices) : prices[i].success => prices[i].amountOut > 0

(* ----------------------------------------------------------------------- *)
(* C11 as stated: in every Opportunity returned by buildOpportunity,       *)
(* netProfitEst = max(0, max(0, usdValueOut - usdValueIn) - gas cost in    *)
(* USD) and is never negative; and when the gross spread is positive while *)
(* the gas cost in USD exceeds the gross USD profit, recognized is true,   *)
(* executable is false and netProfitEst is 0.                              *)
(* ----------------------------------------------------------------------- *)
Max(a, b) == IF a >= b THEN a ELSE b

GrossProfitUsd == Max(0, b_opp.usdValueOut - b_opp.usdValueIn)

GasExceedsGrossProfit ==
    /\ b_pc = "returned"
    /\ b_opp.grossSpreadBps > 0
    /\ b_loc.estimatedGasCostUsdc > GrossProfitUsd

C11_NetProfitFlooredNotExecutable ==
    (b_pc = "returned") =>
        /\ b_opp.netProfitEst = Max(0, GrossProfitUsd - b_loc.estimatedGasCostUsdc)
        /\ b_opp.netProfitEst >= 0
        /\ GasExceedsGrossProfit =>
              /\ b_opp.recognized
              /\ ~b_opp.executable
              /\ b_opp.netProfitEst = 0

(* C11 amended: the same, but executable is false in that case only when   *)
(* the configured minimum profit is positive; with a minimum of 0 the      *)
(* floored net profit of 0 meets it, and executable then follows the       *)
(* slippage-adjusted spread.                                               *)
C11_NetProfitFloored ==
    (b_pc = "returned") =>
        /\ b_opp.netProfitEst = Max(0, GrossProfitUsd - b_loc.estimatedGasCostUsdc)
        /\ b_opp.netProfitEst >= 0
        /\ GasExceedsGrossProfit =>
              /\ b_opp.recognized
              /\ b_opp.netProfitEst = 0
              /\ b_cfg.minProfitUsdc > 0 => ~b_opp.executable
              /\ b_cfg.minProfitUsdc <= 0 =>
                    (b_opp.executable <=> b_opp.slipAdjSpreadBps > 0)

(* gas costs more than the gross profit of a recognized round trip whose   *)
(* slippage-adjusted spread is positive too; a positive minimum keeps it   *)
(* from being executable                                                   *)
C11_Witness ==
    /\ GasExceedsGrossProfit
    /\ GrossProfitUsd > 0
    /\ b_opp.slipAdjSpreadBps > 0
    /\ b_cfg.minProfitUsdc > 0
    /\ b_opp.netProfitEst = 0
    /\ ~b_opp.executable

(* ----------------------------------------------------------------------- *)
(* C12: a conversion of a non-anchor asset that begins less than 5 seconds *)
(* after a conversion established (stored) the asset's price issues no     *)
(* reference quote; one that begins after the 5 seconds have passed, or    *)
(* with no price stored since construction or clearCache, issues one.      *)
(* ----------------------------------------------------------------------- *)
NonAnchorConversion ==
    /\ u_call.pc \notin {"idle", "ready"}
    /\ ~getTokenMeta(u_call.token).isUndefined
    /\ toLowerCase(u_call.token) # toLowerCase(USDC_ADDRESS)

C12_NoQuoteWithinTtl ==
    NonAnchorConversion =>
        /\ (u_call.sinceStored >= 0 /\ u_call.sinceStored < CACHE_TTL_MS)
              => u_call.quotes = <<>>
        /\ (u_call.sinceStored < 0 \/ u_call.sinceStored >= CACHE_TTL_MS)
              => u_call.quotes # <<>>

(* ----------------------------------------------------------------------- *)
(* C13: convertToUsd never throws; it returns 0 for an unknown token and   *)
(* when every reference quote it issued raised or failed.                  *)
(* ----------------------------------------------------------------------- *)
C13_ConvertNeverThrows ==
    /\ u_call.pc # "threw"
    /\ (u_call.pc = "returned") =>
          /\ Len(u_call.results) = Len(u_call.quotes)
          /\ getTokenMeta(u_call.token).isUndefined => u_call.ret = 0
          /\ ( /\ u_call.quotes # <<>>
               /\ \A i \in 1 .. Len(u_call.results) :
                     \/ u_call.results[i].threw
                     \/ ~u_call.results[i].quote.success )
             => u_call.ret = 0

(* both venue calls raised during the conversion of a positive amount *)
C13_Witness ==
    /\ u_call.pc = "returned"
    /\ u_call.amount > 0
    /\ Len(u_call.results) = 2
    /\ u_call.results[1].threw
    /\ u_call.results[2].threw
    /\ u_call.ret = 0

(* ----------------------------------------------------------------------- *)
(* C14: during the path enumeration at most 3 path requests are in flight  *)
(* at any moment, and no path of a later batch has been started while a    *)
(* path of an earlier batch has not settled.                               *)
(* ----------------------------------------------------------------------- *)
C14_BatchedDispatch ==
    /\ Cardinality({ k \in 1 .. Len(p_paths) : p_paths[k].inFlight }) <= CONCURRENCY
    /\ \A k \in 1 .. Len(p_paths) :
          p_paths[k].status # "unstarted" =>
            \A j \in 1 .. CONCURRENCY * ((k - 1) \div CONCURRENCY) :
                p_paths[j].status = "settled"

(* ----------------------------------------------------------------------- *)
(* C15: a path whose request has not answered when its 5-second timer      *)
(* fires is recorded as a failed attempt, like a reverted one but for the  *)
(* reason; the call returns no later than 5 seconds after it began while   *)
(* such requests stay unanswered, with the quote selected from the paths   *)
(* that answered.                                                          *)
(* ----------------------------------------------------------------------- *)
TimedOutPaths ==
    { k \in 1 .. Len(p_paths) :
        p_paths[k].status = "settled" /\ p_paths[k].inFlight }

AnsweredSuccesses ==
    { k \in 1 .. Len(p_paths) :
        /\ p_paths[k].status = "settled"
        /\ ~p_paths[k].inFlight
        /\ p_paths[k].attempt.success }

C15_TimeoutIsFailure ==
    /\ p_pc \in {"awaiting", "returned"} =>
          p_clock - p_startedAt <= PER_PATH_TIMEOUT_MS
    /\ \A k \in TimedOutPaths :
          LET path == pancakePaths(p_in.tokenIn, p_in.tokenOut)[k]
              reverted == [threw |-> TRUE, amountOut |-> 0,
                           error |-> [isError |-> TRUE,
                                      message |-> "execution reverted"]]
          IN  /\ ~p_paths[k].attempt.success
              /\ p_paths[k].attempt.amountOut = 0
              /\ p_paths[k].attempt.error = "timeout"
              /\ [p_paths[k].attempt EXCEPT !.error = ""] =
                 [tryPathWithTimeout(path, reverted) EXCEPT !.error = ""]
    /\ (p_pc = "returned") =>
          /\ ~p_quote.threw
          /\ p_quote.quote.success <=> AnsweredSuccesses # {}
          /\ \A k \in AnsweredSuccesses :
                p_quote.quote.amountOut >= p_paths[k].attempt.amountOut

(* a quote returned from an answered path while another request is stuck *)
C15_Witness ==
    /\ p_pc = "returned"
    /\ TimedOutPaths # {}
    /\ p_quote.quote.success
    /\ p_quote.quote.amountOut > 0
    /\ p_clock - p_startedAt = PER_PATH_TIMEOUT_MS

(* ----------------------------------------------------------------------- *)
(* C16: fetchPancakeSwapV3Price returns a successful Quote with the        *)
(* highest output among the paths that succeeded, carrying the path type   *)
(* and fee tiers of a path with that output, and a failure Quote exactly   *)
(* when no path succeeded.                                                 *)
(* ----------------------------------------------------------------------- *)
C16_BestPathSelected ==
    (p_pc = "returned") =>
        LET paths == pancakePaths(p_in.tokenIn, p_in.tokenOut)
            successes == { k \in 1 .. Len(p_paths) : p_paths[k].attempt.success }
        IN  /\ ~p_quote.threw
            /\ p_quote.quote.success <=> successes # {}
            /\ successes = {} => p_quote.quote.amountOut = 0
            /\ successes # {} =>
                  \E k \in successes :
                    /\ p_quote.quote.amountOut = p_paths[k].attempt.amountOut
                    /\ p_quote.quote.poolAddress = paths[k].pathType
                    /\ p_quote.quote.feeTiers = paths[k].feeTiers
                    /\ \A j \in successes :
                          p_paths[j].attempt.amountOut <= p_paths[k].attempt.amountOut

(* a multi-hop path of the second batch beats a successful direct path *)
C16_Witness ==
    /\ p_pc = "returned"
    /\ Len(p_paths) > CONCURRENCY
    /\ p_paths[1].attempt.success
    /\ p_quote.quote.success
    /\ p_quote.quote.amountOut > p_paths[1].attempt.amountOut
    /\ p_quote.quote.poolAddress = "multi-hop via USDT"
    /\ p_quote.quote.feeTiers = <<feeTiers[2], feeTiers[2]>>

(* ----------------------------------------------------------------------- *)
(* C17: getSyncSwapQuote probes ABI A and then ABI B and stops at the      *)
(* first probe that succeeds; the off-chain constant-product quote is      *)
(* computed only after both probes failed and only for a classic pool; for *)
(* a stable pool whose probes both failed no pool state is read and the    *)
(* result is a failure.                                                    *)
(* ----------------------------------------------------------------------- *)
AllProbesFailed ==
    /\ Len(s_last.probes) = 2
    /\ \A i \in 1 .. 2 : s_last.probes[i].failed

withBridgedUsdc(path) ==
    [ i \in 1 .. Len(path) |->
        IF path[i] = USDC_ADDRESS THEN USDC_E_ADDRESS ELSE path[i] ]

MuteFailedForNativeUsdc ==
    /\ f_last.dex = "mute"
    /\ ~f_last.threw
    /\ prices # <<>>
    /\ prices[Len(prices)].dex = "mute"
    /\ ~prices[Len(prices)].success
    /\ USDC_ADDRESS \in {f_in.tokenIn, f_in.tokenOut}

C18_MuteRetriesWithBridgedUsdc ==
    MuteFailedForNativeUsdc =>
        /\ Len(f_last.routerPaths) = 2
        /\ f_last.routerPaths[1] = <<f_in.tokenIn, f_in.tokenOut>>
        /\ f_last.routerPaths[2] = withBridgedUsdc(<<f_in.tokenIn, f_in.tokenOut>>)

(* ----------------------------------------------------------------------- *)
(* C19: within the loop of PriceGapMonitor.start at most one scan is in    *)
(* progress at any time: when a tick begins its scan, and whenever the     *)
(* loop is at its condition, asleep or ended, every earlier scan has       *)
(* completed or failed.                                                    *)
(* ----------------------------------------------------------------------- *)
C19_TicksNeverOverlap ==
    /\ Cardinality(g_running) <= 1
    /\ \A s \in g_running : s.id = scanCount /\ g_pc = "awaitScan"
    /\ g_pc \in {"test", "sleep", "backoff", "completed"} =>
          /\ g_running = {}
          /\ g_settled.id = scanCount

(* the scan of a later tick in progress, the one before it settled *)
C19_Witness ==
    /\ scanCount >= 2
    /\ g_settled.id = scanCount - 1
    /\ \E s \in g_running : s.id = scanCount /\ s.pair = NumPairs

(* ----------------------------------------------------------------------- *)
(* C20 (as claimed): the loop of PriceGapMonitor.start ends only after an  *)
(* explicit stop request.                                                  *)
(* ----------------------------------------------------------------------- *)
C20_EndsOnlyOnStop ==
    (g_pc = "completed") => ~isRunning

(* ----------------------------------------------------------------------- *)
(* C20 (amended): a failure during a tick never ends the loop: the error   *)
(* is logged, the 10-second back-off is awaited, and then the next tick    *)
(* runs unless the loop ends; the loop ends only after a stop request or   *)
(* once the duration given to start has elapsed.                           *)
(* ----------------------------------------------------------------------- *)
C20_FailureNeverEndsLoop ==
    /\ []((g_pc = "completed") => (~isRunning \/ g_remaining = 0))
    /\ []((g_pc = "backoff") =>
            /\ g_event = ScanErrorLogged
            /\ g_timer <= ERROR_SLEEP_MS)
    /\ \A n \in 1 .. MaxDuration + 2 :
          (g_pc = "backoff" /\ scanCount = n) ~>
              \/ g_pc = "awaitScan" /\ scanCount = n + 1
              \/ g_pc = "completed"

(* after a failed tick was logged, the next tick is scanning *)
C20_Witness ==
    /\ g_pc = "awaitScan"
    /\ scanCount >= 2
    /\ g_settled = [id |-> scanCount - 1, failed |-> TRUE]
    /\ g_event = ScanErrorLogged
    /\ isRunning
    /\ g_remaining > 0

(* ----------------------------------------------------------------------- *)
(* C22: the sweep (updateClosedOpportunities) runs on every tick: once a   *)
(* tick has gone to its sleep or its back-off, the sweep has been called   *)
(* in that tick.                                                           *)
(* ----------------------------------------------------------------------- *)
C22_SweepRunsEveryTick ==
    (g_pc \in {"sleep", "backoff"}) => g_swept = scanCount

(* ----------------------------------------------------------------------- *)
(* C21: every row of price_gaps is created open, with closedAt and the     *)
(* decay time unset; a step leaves a closed row as it is, keeps every      *)
(* row's creation timestamp, and sets closedAt and the decay time exactly  *)
(* when it closes the row: open rows have neither, closed rows have both.  *)
(* ----------------------------------------------------------------------- *)
GapRowWellFormed(row) ==
    \/ /\ row.status = "open"
       /\ row.closedAt = NullTime
       /\ row.decayMs = NullTime
    \/ /\ row.status = "closed"
       /\ row.closedAt # NullTime
       /\ row.decayMs # NullTime

GapLifecycleStep ==
    /\ Len(price_gaps') >= Len(price_gaps)
    /\ \A i \in 1 .. Len(price_gaps) :
          /\ price_gaps[i].status = "closed" => price_gaps'[i] = price_gaps[i]
          /\ price_gaps'[i].timestamp = price_gaps[i].timestamp
    /\ \A i \in (Len(price_gaps) + 1) .. Len(price_gaps') :
          price_gaps'[i].status = "open"

C21_ClosedIsTerminal ==
    /\ [](\A i \in 1 .. Len(price_gaps) : GapRowWellFormed(price_gaps[i]))
    /\ [][GapLifecycleStep]_vars

(* a row closed by an earlier sweep has been through a later sweep that    *)
(* closed another row                                                      *)
C21_Witness ==
    /\ d_last.op = "sweep"
    /\ \E i, j \in 1 .. Len(price_gaps) :
          /\ price_gaps[i].status = "closed"
          /\ price_gaps[i].closedAt < d_last.closedAtNow
          /\ price_gaps[j].status = "closed"
          /\ price_gaps[j].closedAt = d_last.closedAtNow

(* ----------------------------------------------------------------------- *)
(* C23: what scanOpportunities returns is the list of the opportunities    *)
(* built, in pair order, restricted to those whose grossSpreadBps is at    *)
(* least the caller's minimum spread (0 when none was given), a negative   *)
(* minimum included.                                                       *)
(* ----------------------------------------------------------------------- *)
CallerMinSpread == IF sc_option.given THEN sc_option.value ELSE 0

AtOrAboveCallerMin(opportunity) == opportunity.grossSpreadBps >= CallerMinSpread

C23_FilteredInPairOrder ==
    (sc_pc = "returned") =>
        /\ opportunities = SelectSeq(sc_built, AtOrAboveCallerMin)
        /\ \A i, j \in 1 .. Len(opportunities) :
              i < j => opportunities[i].pair < opportunities[j].pair

(* a negative minimum: a lossy opportunity is returned after a profitable  *)
(* one, and one below the minimum was dropped                              *)
C23_Witness ==
    /\ sc_pc = "returned"
    /\ sc_option.given
    /\ sc_option.value < 0
    /\ Len(opportunities) = 2
    /\ Len(sc_built) = 3
    /\ opportunities[1].grossSpreadBps > 0
    /\ opportunities[2].grossSpreadBps < 0


(* ----------------------------------------------------------------------- *)
(* DEXTokenResolver claims                                                 *)
(* ----------------------------------------------------------------------- *)
IsNativeUsdc(token) == toLowerCase(token) = toLowerCase(USDC_ADDRESS)
IsBridgedUsdc(token) == toLowerCase(token) = toLowerCase(USDC_E_ADDRESS)
Spellings(token) == { t \in ResolverTokens : toLowerCase(t) = toLowerCase(token) }
InRegistry(token) == \E a \in {WETH_ADDRESS, USDC_ADDRESS, USDC_E_ADDRESS, USDT_ADDRESS} : toLowerCase(a) = toLowerCase(token)

(* what resolve must hand back for one side under a forcing policy *)
ForcedSide(policy, given, returned, tag) ==
    /\ (policy = "force-native" /\ IsBridgedUsdc(given)) =>
           (IsNativeUsdc(returned) /\ returned = usdcNative /\ tag = "native")
    /\ (policy = "force-bridged" /\ IsNativeUsdc(given)) =>
           (IsBridgedUsdc(returned) /\ returned = toLowerCase(USDC_E_ADDRESS) /\ tag = "bridged")
    /\ (~IsNativeUsdc(given) /\ ~IsBridgedUsdc(given)) =>
           (returned = given /\ tag = "original")

(* C24: under force-native resolve returns the native USDC address for     *)
(* every side that is bridged USDC.e, under force-bridged the bridged      *)
(* address for every side that is native USDC, and every side that is not  *)
(* a USDC variant is returned unchanged.                                   *)
C24_ForcedPolicySubstitutes ==
    (r_call.fn = "resolve" /\ r_call.policy \in {"force-native", "force-bridged"}) =>
        /\ ForcedSide(r_call.policy, r_call.tokenIn, r_call.ret.resolution.tokenIn, r_call.ret.resolution.resolvedFrom.tokenIn)
        /\ ForcedSide(r_call.policy, r_call.tokenOut, r_call.ret.resolution.tokenOut, r_call.ret.resolution.resolvedFrom.tokenOut)

C24_Witness ==
    /\ r_call.fn = "resolve"
    /\ r_call.policy = "force-native"
    /\ r_call.tokenIn = "0XUSDC.E"
    /\ r_call.tokenOut = WETH_ADDRESS
    /\ r_call.ret.resolution.tokenIn = usdcNative
    /\ r_call.ret.resolution.tokenOut = WETH_ADDRESS

(* C25: under the policies off and auto resolve returns tokenIn and        *)
(* tokenOut exactly as given, in the spelling given, with both provenance  *)
(* tags original.                                                          *)
C25_OffAndAutoReturnInputs ==
    (r_call.fn = "resolve" /\ r_call.policy \in {"off", "auto"}) =>
        r_call.ret.resolution = TokenResolution(r_call.tokenIn, r_call.tokenOut, "original", "original")

C25_Witness ==
    /\ r_call.fn = "resolve"
    /\ r_call.policy = "auto"
    /\ r_call.tokenIn = USDC_E_ADDRESS
    /\ r_call.tokenOut = "0XUSDC"
    /\ r_call.ret.resolution.tokenIn = USDC_E_ADDRESS
    /\ r_call.ret.resolution.tokenOut = "0XUSDC"

(* one side of two resolutions agrees: same tag, same substitute, and an   *)
(* unsubstituted side is the argument handed in                            *)
SameSideDecision(tag, returned, otherGiven, otherTag, otherReturned) ==
    /\ otherTag = tag
    /\ tag # "original" => otherReturned = returned
    /\ tag = "original" => otherReturned = otherGiven

(* the calls of resolve, getAlternative, isUSDC and pairInvolvesUSDC give  *)
(* the same answer for every other spelling of their arguments             *)
SameDecisionBesidesSymbol ==
    /\ r_call.fn = "resolve" =>
         \A i \in Spellings(r_call.tokenIn), o \in Spellings(r_call.tokenOut) :
            /\ SameSideDecision(r_call.ret.resolution.resolvedFrom.tokenIn, r_call.ret.resolution.tokenIn, i, resolve("mute", i, o, r_call.policy).resolvedFrom.tokenIn, resolve("mute", i, o, r_call.policy).tokenIn)
            /\ SameSideDecision(r_call.ret.resolution.resolvedFrom.tokenOut, r_call.ret.resolution.tokenOut, o, resolve("mute", i, o, r_call.policy).resolvedFrom.tokenOut, resolve("mute", i, o, r_call.policy).tokenOut)
    /\ r_call.fn = "getAlternative" =>
         \A t \in Spellings(r_call.tokenIn) : getAlternative(t) = r_call.ret.text
    /\ r_call.fn = "isUSDC" =>
         \A t \in Spellings(r_call.tokenIn) : isUSDC(t) = r_call.ret.flag
    /\ r_call.fn = "pairInvolvesUSDC" =>
         \A i \in Spellings(r_call.tokenIn), o \in Spellings(r_call.tokenOut) :
            pairInvolvesUSDC(i, o) = r_call.ret.flag

(* C26 as stated: any two calls of one resolver operation whose address    *)
(* arguments differ only in letter case give the same classification,      *)
(* substitution, symbol and provenance tags.                               *)
C26_SameDecisionForAnySpelling ==
    /\ SameDecisionBesidesSymbol
    /\ r_call.fn = "getTokenSymbol" =>
         \A t \in Spellings(r_call.tokenIn) : resolverTokenSymbol(t) = r_call.ret.text

(* C26 amended: the same, except that getTokenSymbol gives one symbol for  *)
(* every spelling of an address of the registry only; for any other        *)
(* address it hands back its argument in the spelling it was given.        *)
C26_SameDecisionForRegisteredTokens ==
    /\ SameDecisionBesidesSymbol
    /\ r_call.fn = "getTokenSymbol" =>
         \A t \in Spellings(r_call.tokenIn) :
            IF InRegistry(r_call.tokenIn)
            THEN resolverTokenSymbol(t) = r_call.ret.text
            ELSE resolverTokenSymbol(t) = t

C26_Witness ==
    /\ r_call.fn = "getTokenSymbol"
    /\ r_call.tokenIn = "0XUSDC.E"
    /\ r_call.ret.text = "USDC.e"
    /\ Cardinality(Spellings(r_call.tokenIn)) = 3


(* ----------------------------------------------------------------------- *)
(* SyncSwap bookkeeping is per ordered pair                                *)
(* ----------------------------------------------------------------------- *)
SamePairIgnoringCase(p, q) ==
    /\ toLowerCase(p[1]) = toLowerCase(q[1])
    /\ toLowerCase(p[2]) = toLowerCase(q[2])

CounterOf(p) == errorCounters[pairKey(p[1], p[2])]

(* two spellings of one ordered pair read one counter and one flag *)
SpellingsShareState ==
    \A p \in SyncPairs, q \in SyncPairs :
        SamePairIgnoringCase(p, q) =>
            /\ CounterOf(p) = CounterOf(q)
            /\ isPairDisabled(disabledPairs, p[1], p[2]) = isPairDisabled(disabledPairs, q[1], q[2])

(* a step of getSyncSwapQuote for one pair leaves the counter and the flag *)
(* of every other ordered pair, the reversed one included, as they were    *)
OtherPairsUntouched ==
    (s_last'.op # "reset") =>
        \A q \in SyncPairs :
            (<<toLowerCase(q[1]), toLowerCase(q[2])>> # s_last'.key) =>
                /\ errorCounters'[pairKey(q[1], q[2])] = errorCounters[pairKey(q[1], q[2])]
                /\ isPairDisabled(disabledPairs', q[1], q[2]) = isPairDisabled(disabledPairs, q[1], q[2])

(* C27: the SyncSwap failure counter and disabled flag are kept per        *)
(* ordered pair (tokenIn, tokenOut) compared case-insensitively: what is   *)
(* recorded for (A, B) never changes the counter or the flag of (B, A) or  *)
(* of any other pair, and two spellings of one pair that differ only in    *)
(* letter case share one counter and one flag.                             *)
C27_StatePerOrderedPair ==
    /\ []SpellingsShareState
    /\ [][OtherPairsUntouched]_vars

C27_Witness ==
    /\ s_last.op = "returned"
    /\ s_last.key = <<toLowerCase(USDC_ADDRESS), toLowerCase(WETH_ADDRESS)>>
    /\ s_last.result.success
    /\ CounterOf(<<USDC_ADDRESS, WETH_ADDRESS>>) = 0
    /\ CounterOf(<<WETH_ADDRESS, USDC_ADDRESS>>) = MAX_CONSECUTIVE_ERRORS
    /\ CounterOf(<<toLowerCase(WETH_ADDRESS), toLowerCase(USDC_ADDRESS)>>) = MAX_CONSECUTIVE_ERRORS
    /\ isPairDisabled(disabledPairs, WETH_ADDRESS, USDC_ADDRESS)
    /\ ~isPairDisabled(disabledPairs, USDC_ADDRESS, WETH_ADDRESS)


(* ----------------------------------------------------------------------- *)
(* utils/math: zero divisors and the ends of the basis-point range         *)
(* ----------------------------------------------------------------------- *)
MathCallEnded(fn) == m_pc \in {"done", "threw"} /\ m_fn = fn

(* C28: calculateGrossSpreadBps(0, x) returns 0 for every x and            *)
(* toBasisPoints(value, 0) returns 0 for every value, both without raising.*)
C28_ZeroBaseGivesZero ==
    /\ (MathCallEnded("calculateGrossSpreadBps") /\ m_args.a = 0) =>
           (m_pc = "done" /\ m_ret = 0)
    /\ (MathCallEnded("toBasisPoints") /\ m_args.b = 0) =>
           (m_pc = "done" /\ m_ret = 0)

C28_Witness ==
    /\ m_pc = "done"
    /\ m_fn = "toBasisPoints"
    /\ m_args.a = 0 - BPS_DENOMINATOR
    /\ m_args.b = 0
    /\ m_ret = 0

(* C29: mulDiv called with scale = 0 and roundDown called with unit = 0    *)
(* return zero instead of throwing.                                        *)
C29_ZeroDivisorGivesZero ==
    /\ (MathCallEnded("mulDiv") /\ m_args.c = 0) => (m_pc = "done" /\ m_ret = 0)
    /\ (MathCallEnded("roundDown") /\ m_args.b = 0) => (m_pc = "done" /\ m_ret = 0)

(* C30: for every amount >= 0, applyBasisPointReduction(amount, 0) is the  *)
(* amount and applyBasisPointReduction(amount, 10000) is 0.                *)
C30_ReductionEndpoints ==
    (MathCallEnded("applyBasisPointReduction") /\ m_args.a >= 0) =>
        /\ m_args.b = 0 => (m_pc = "done" /\ m_ret = m_args.a)
        /\ m_args.b = BPS_DENOMINATOR => (m_pc = "done" /\ m_ret = 0)

C30_Witness ==
    /\ m_pc = "done"
    /\ m_fn = "applyBasisPointReduction"
    /\ m_args.a = BPS_DENOMINATOR + 1
    /\ m_args.b = BPS_DENOMINATOR
    /\ m_ret = 0


(* C31: for every value >= 0 and every unit > 0, roundDown applied to its  *)
(* own result with the same unit gives that result again.                  *)
C31_RoundDownIdempotent ==
    (MathCallEnded("roundDown") /\ m_args.a >= 0 /\ m_args.b > 0) =>
        /\ m_pc = "done"
        /\ ~roundDown(m_ret, m_args.b).threw
        /\ roundDown(m_ret, m_args.b).value = m_ret

C31_Witness ==
    /\ m_pc = "done"
    /\ m_fn = "roundDown"
    /\ m_args.a = BPS_DENOMINATOR + 1
    /\ m_args.b = 2
    /\ m_ret = BPS_DENOMINATOR
    /\ roundDown(m_ret, m_args.b).value = BPS_DENOMINATOR


(* ----------------------------------------------------------------------- *)
(* parseAmount and formatAmount truncate                                   *)
(* ----------------------------------------------------------------------- *)
(* the number written by the digits whole.fractional, times 10^Len(fractional) *)
ScaledValue(whole, fractional) ==
    DigitsToBigInt(whole) * Pow10(Len(fractional)) + DigitsToBigInt(fractional)

(* n / 10^scaleN is the greatest multiple of 1 / 10^scaleN that is not     *)
(* above exact / 10^scaleExact                                             *)
IsTruncationOf(n, scaleN, exact, scaleExact) ==
    /\ n * Pow10(scaleExact) <= exact * Pow10(scaleN)
    /\ (n + 1) * Pow10(scaleExact) > exact * Pow10(scaleN)

(* C32: parseAmount(text, decimals) is the integer obtained by dropping,   *)
(* never rounding up, the fractional digits of text beyond `decimals`      *)
(* places, and formatAmount drops, never rounds up, the digits beyond the  *)
(* display precision: neither result is larger than the exact value.       *)
C32_ParseAndFormatTruncate ==
    /\ (m_pc = "done" /\ m_fn = "parseAmount") =>
          IsTruncationOf(m_ret, m_args.b, ScaledValue(m_args.whole, m_args.fractional), Len(m_args.fractional))
    /\ (m_pc = "done" /\ m_fn = "formatAmount") =>
          /\ Len(m_ret.fractional) = (IF m_args.c < m_args.b THEN m_args.c ELSE m_args.b)
          /\ IsTruncationOf(ScaledValue(m_ret.whole, m_ret.fractional), Len(m_ret.fractional), m_args.a, m_args.b)

C32_Witness ==
    /\ m_pc = "done"
    /\ m_fn = "parseAmount"
    /\ m_args.whole = <<1>>
    /\ m_args.fractional = <<5, 9>>
    /\ m_args.b = 1
    /\ m_ret = 15


(* ----------------------------------------------------------------------- *)
(* buildOpportunity values both sides of the round trip                    *)
(* ----------------------------------------------------------------------- *)
(* both USD values of the opportunity come from the price given *)
ValuedAt(price) ==
    /\ b_opp.usdValueIn = convertToUsd(TRUE, b_cfg.decimalsA, price, b_opp.amountIn)
    /\ b_opp.usdValueOut = convertToUsd(TRUE, b_cfg.decimalsA, price, b_opp.quoteBtoA_amountOut)

(* C33: in every Opportunity built by buildOpportunity usdValueIn and      *)
(* usdValueOut are computed from one and the same price of tokenA; it      *)
(* never happens that one side is valued at zero because valuation failed  *)
(* while the other is valued at a positive price, so no opportunity is     *)
(* executable on the profit of a one-sided valuation failure.              *)
C33_OnePriceForBothSides ==
    (b_pc = "returned") =>
        /\ \E price \in BuildPrices : ValuedAt(price)
        /\ ~(b_opp.usdValueIn = 0 /\ b_opp.usdValueOut > 0 /\ b_opp.executable)


(* C34: in every reachable state, also when several getSyncSwapQuote calls *)
(* for one ordered pair are in flight at once and finish in any order, the *)
(* pair's consecutive-failure counter never exceeds the threshold of 5.    *)
C34_CounterNeverAboveThreshold ==
    \A k \in SyncKeys : errorCounters[k] <= MAX_CONSECUTIVE_ERRORS


(* ----------------------------------------------------------------------- *)
(* scanOpportunities: the two legs and the size of a pair                  *)
(* ----------------------------------------------------------------------- *)
(* the iteration that quoted the return leg asked for the forward output   *)
ReturnLegFedByForwardLeg ==
    (sc_last.outcome \in {"no quote B->A", "threw", "built"}) =>
        /\ Len(sc_last.requests) = 2
        /\ sc_last.requests[1] = QuoteRequest("tokenA", "tokenB", sc_last.size)
        /\ ~sc_last.quoteAtoB.isNull
        /\ sc_last.requests[2] = QuoteRequest("tokenB", "tokenA", sc_last.quoteAtoB.amountOut)

(* an iteration without a quote for one leg adds nothing and goes on *)
UnquotedPairIsSkipped ==
    (sc_last' # sc_last /\ sc_last'.outcome \in {"no quote A->B", "no quote B->A"}) =>
        /\ opportunities' = opportunities
        /\ sc_built' = sc_built
        /\ sc_i' = sc_i + 1
        /\ sc_pc' = "scanning"

(* C35: in scanOpportunities the return-leg quote (B to A) is requested    *)
(* for exactly the amountOut of the forward-leg best quote, and a pair for *)
(* which either leg has no successful quote produces no opportunity while  *)
(* the scan continues with the next pair.                                  *)
C35_ReturnLegUsesForwardOutput ==
    /\ []ReturnLegFedByForwardLeg
    /\ [][UnquotedPairIsSkipped]_vars

C35_Witness ==
    /\ sc_last.outcome = "no quote B->A"
    /\ sc_last.pair = 1
    /\ sc_last.size = SizeOfTokenA
    /\ sc_last.quoteAtoB.amountOut = 7
    /\ sc_last.requests[2].amountIn = 7
    /\ sc_i = 2
    /\ sc_pc = "scanning"
    /\ opportunities = <<>>

(* C37: scanOpportunities never sizes a pair from an amount defined for    *)
(* tokenB: when neither an explicit size nor a configured default exists   *)
(* for tokenA, the pair is skipped.                                        *)
C37_NeverSizedFromTokenB ==
    (sc_last.outcome # "" /\ sc_last.sizes.sizeA = 0 /\ sc_last.sizes.defaultA = 0) =>
        /\ sc_last.outcome = "no size"
        /\ sc_last.requests = <<>>


(* ----------------------------------------------------------------------- *)
(* the monitor records every gap it sees, without deduplication            *)
(* ----------------------------------------------------------------------- *)
(* a step of findAndRecordOpportunities for one gap *)
GapObserved ==
    /\ d_last'.op \in {"record", "skip"}
    /\ d_clock' = d_clock
    /\ (price_gaps' # price_gaps \/ d_last' # d_last)

(* the table after the step is the table before it plus one open record   *)
(* of the gap seen                                                         *)
OneOpenRecordInserted ==
    /\ Len(price_gaps') = Len(price_gaps) + 1
    /\ SubSeq(price_gaps', 1, Len(price_gaps)) = price_gaps
    /\ price_gaps'[Len(price_gaps')] = [ timestamp |-> d_clock, venues |-> d_last'.venues, status |-> "open", closedAt |-> NullTime, decayMs |-> NullTime ]

C38_GasSpentWithinBudget ==
    o_pc \in {"scanning", "submitted"} => currentGasSpent <= dailyGasBudgetWei

(* a transaction that costs no more than the estimate keeps the spending   *)
(* within the budget: the gate is passed only when spent + estimate fits   *)
EstimatedCostFitsBudget ==
    [][(o_pc = "submitted" /\ o_last'.op = "confirmed" /\ o_last'.gasCost <= estimateGas.gasCostWei)
         => currentGasSpent' <= dailyGasBudgetWei]_vars

(* ----------------------------------------------------------------------- *)
(* executeFlashloanMulti and the callback of the vault                     *)
(* ----------------------------------------------------------------------- *)
(* the call of the claim: made by a holder of EXECUTOR_ROLE on an unpaused *)
(* router with executor and vault configured, the vault has made its       *)
(* callback, and the executor is one that succeeds and repays              *)
AuthorizedFlashloanEnded ==
    /\ x_pc = "ended"
    /\ x_tx.fn = "executeFlashloanMulti"
    /\ x_tx.authorized
    /\ x_tx.callback
    /\ x_tx.executorSucceeds
    /\ x_tx.executorRepays

(* C39: a call to executeFlashloanMulti by an account holding              *)
(* EXECUTOR_ROLE on an unpaused router with executor and vault configured  *)
(* completes successfully: the receiveFlashLoan callback that the vault    *)
(* makes during that call is accepted, the executor runs and the borrowed  *)
(* amount plus fee is repaid to the vault.                                 *)
C39_AuthorizedFlashloanCompletes ==
    AuthorizedFlashloanEnded => x_result = "success"

(* no call of executeFlashloanMulti ever completes: the callback is        *)
(* always refused by the reentrancy guard                                  *)
ExecuteFlashloanMultiNeverSucceeds ==
    (x_pc = "ended" /\ x_tx.fn = "executeFlashloanMulti") => x_result # "success"


(* ----------------------------------------------------------------------- *)
(* stop() ends the monitoring loop                                         *)
(* ----------------------------------------------------------------------- *)
(* stop() has been called and start() has not returned yet *)
MonStopping == ~isRunning /\ g_pc \notin {"idle", "completed"}

(* the scan or the sleep that was in progress has finished: the loop is at *)
(* its test, or sleeps on a timer, or waits for a scan that has settled    *)
MonActivityEnds ==
    \/ g_pc \in {"test", "sleep", "backoff"}
    \/ g_pc = "awaitScan" /\ scanSettled(g_settled, scanCount)

====
